---- MODULE Spec2Model ----
(***************************************************************************)
(* Model of the chart engine of src/app/Jathakam/page.tsx: the angle       *)
(* normaliser, the varga mappers, the nakshatra resolver, the panchanga    *)
(* calculator and the ascendant aspect detector.                           *)
(*                                                                         *)
(* Angles are fixed-point integers: one unit is 1/Scale of a degree, so    *)
(* that 360/27, 30/9, arc-seconds and the four-decimal degrees quoted in   *)
(* the specification are all exact.  The model does not carry the 53-bit   *)
(* significand of a double.  Whole and half degrees are exact doubles and  *)
(* so are their quotients by 3, 6, 10, 12 and 2.5; a nakshatra span        *)
(* (360/27) and a pada (a quarter of it) are not, and on a longitude that  *)
(* is a whole number of padas the code's quotient comes out as the whole   *)
(* number or just below it, depending on the double: nakForDeg(10) is      *)
(* pada 4 but nakForDeg(20) is pada 2.  The model keeps the exact value    *)
(* and takes which way such a quotient rounds as a choice (Roundings);     *)
(* away from an edge (a unit is far more than any rounding error)          *)
(* arithmetic is exact.                                                    *)
(*                                                                         *)
(* A JavaScript number is a record [t, v]: t = "num" carries the value v,  *)
(* any other t (NaN, Infinity, undefined) is a value Number.isFinite       *)
(* rejects.                                                                *)
(*                                                                         *)
(* The engine is a set of pure functions.  The state is the invocation in  *)
(* progress: which function was called (fn), with what (args), and what    *)
(* came back (ret).  args and ret are records, named after the parameters  *)
(* and after the kind of result, so that the states of different calls     *)
(* can be told apart field by field.                                       *)
(*                                                                         *)
(* The page component that calls the engine is modelled beside it: the     *)
(* form fields, generateChart with its request to /api/chart, the          *)
(* auto-geocode effect with its timer and its requests, and the effect     *)
(* that keeps the day within the month.  Each has a specification of its   *)
(* own (SpecChart, SpecGeocode, SpecDate), and SpecAgain calls the         *)
(* functions of a chart computation repeatedly; the engine specification   *)
(* (Spec) leaves the page as it is after its first render.                 *)
(***************************************************************************)
EXTENDS Integers, Sequences, FiniteSets, TLC

VARIABLES fn, args, ret

\* The state of the page component (Home): the form fields, the chart
\* request and its outcome, the effects and requests still to run, and two
\* history variables (geoApplied, earlier) that record what a property needs
\* to look back at.
VARIABLES formName, place, lat, lon, year, month, day, timeStr, timezone,
          loading, chartOut, err, chartCall, sent,
          clampEffect, geoTimer, geoRequests, geoApplied,
          earlier

formVars == <<formName, place, lat, lon, year, month, day, timeStr, timezone>>

chartVars == <<loading, chartOut, err, chartCall, sent>>

geoVars == <<geoTimer, geoRequests, geoApplied>>

pageVars == <<formVars, chartVars, clampEffect, geoVars>>

vars == <<fn, args, ret, pageVars, earlier>>

(* ---------------- representation of numbers ---------------- *)

\* Units per degree: 3600 arc-seconds, each split in 50.
Scale == 3600 * 50

Deg(n) == n * Scale

\* n ten-thousandths of a degree (13.3333 is TenThousandths(133333)).
TenThousandths(n) == n * (Scale \div 10000)

Num(x) == [t |-> "num", v |-> x]

NaN == [t |-> "NaN", v |-> 0]

Infinity == [t |-> "Infinity", v |-> 0]

Undefined == [t |-> "undefined", v |-> 0]

NonFinite == {NaN, Infinity, Undefined}

\* Number.isFinite
IsFinite(x) == x.t = "num"

\* The JavaScript remainder x % m (m > 0): the sign of the dividend.
JsRem(x, m) == IF x >= 0 THEN x % m ELSE -((-x) % m)

\* Math.floor(x / y) for y > 0.
FloorDiv(x, y) == x \div y

\* How the doubles round when a longitude is a whole number of spans of 360/27
\* or of their quarters: not at all; the longitude itself just below the edge
\* (so is its quotient by the span, and its offset in the span); or the
\* quotient on the whole number and only the offset just below it.
Roundings == {"exact", "quotientBelow", "offsetBelow"}

\* A longitude that is not a whole number of degrees: neither it nor its
\* normalisation need be the exact value.
Inexact(x) == x % Scale # 0

\* Math.floor(x / y) for y > 0, of a double x that is just below its exact
\* value when below holds: on a whole multiple of y the floor is one less.
FloorR(x, y, below) ==
    IF below /\ x % y = 0 THEN x \div y - 1 ELSE x \div y

\* An array read arr[i], zero-based: out of range reads undefined.
At(arr, i) == IF i \in 0..(Len(arr) - 1) THEN arr[i + 1] ELSE "undefined"

(* ---------------- constants & helpers ---------------- *)

SIGNS == <<"Aries", "Taurus", "Gemini", "Cancer", "Leo", "Virgo", "Libra",
           "Scorpio", "Sagittarius", "Capricorn", "Aquarius", "Pisces">>

\* A mutant of norm360: the inner remainder alone, which keeps the sign of x.
norm360_NoShift(x) == JsRem(x, Deg(360))

norm360(x) == JsRem(JsRem(x, Deg(360)) + Deg(360), Deg(360))

\* One arc-second, in units.
ArcSecond == Scale \div 3600

\* toDMSSafe: the normalized angle rounded to whole arc-seconds (Math.round,
\* halves upward) and split into degrees, minutes and seconds.  The two
\* carries follow the code; after the floor divisions neither can fire.
toDMSSafe(deg) ==
    LET total0 == FloorDiv(norm360(deg) + ArcSecond \div 2, ArcSecond)
        d0 == FloorDiv(total0, 3600)
        total1 == total0 - d0 * 3600
        m0 == FloorDiv(total1, 60)
        s0 == total1 - m0 * 60
        s == IF s0 = 60 THEN 0 ELSE s0
        m1 == IF s0 = 60 THEN m0 + 1 ELSE m0
        m == IF m1 = 60 THEN 0 ELSE m1
        d1 == IF m1 = 60 THEN d0 + 1 ELSE d0
    IN  [d |-> d1 % 360, m |-> m, s |-> s]

\* n.toString().padStart(2, '0') for 0 <= n < 100, as its two digits.
padStart2(n) == IF n < 10 THEN <<0, n>> ELSE <<n \div 10, n % 10>>

\* fmtSignDeg: the sign from the floor of the normalized longitude, and the
\* rest of the longitude rounded on its own by toDMSSafe.  The text
\* "<sign> <dd>°<mm>′<ss>″" is kept as its four printed fields.
fmtSignDeg(deg) ==
    LET d == norm360(deg)
        sign == FloorDiv(d, Deg(30))
        within == d - sign * Deg(30)
        dms == toDMSSafe(within)
    IN  [sign |-> At(SIGNS, sign), dd |-> dms.d,
         mm |-> padStart2(dms.m), ss |-> padStart2(dms.s)]

\* A mutant of signIndex: the longitude reduced by the remainder alone, which
\* keeps a negative longitude negative.
signIndex_NoShift(deg) == FloorDiv(JsRem(deg, Deg(360)), Deg(30))

signIndex(deg) == FloorDiv(norm360(deg), Deg(30))

QUALITY == <<"movable", "fixed", "dual", "movable", "fixed", "dual",
             "movable", "fixed", "dual", "movable", "fixed", "dual">>

\* A mutant of navamsaSign: the fixed and dual bases exchanged.
navamsaSign_BasesSwapped(s, within) ==
    LET p == FloorDiv(within, Deg(30) \div 9)
        q == At(QUALITY, s)
        base == IF q = "movable" THEN s
                ELSE IF q = "fixed" THEN (s + 4) % 12 ELSE (s + 8) % 12
    IN  (base + p) % 12

\* A mutant of navamsaSign: a dual sign counted from itself.
navamsaSign_DualFromSign(s, within) ==
    LET p == FloorDiv(within, Deg(30) \div 9)
        q == At(QUALITY, s)
        base == IF q = "movable" THEN s
                ELSE IF q = "fixed" THEN (s + 8) % 12 ELSE s
    IN  (base + p) % 12

navamsaSign(s, within) ==
    LET p == FloorDiv(within, Deg(30) \div 9)
        q == At(QUALITY, s)
        base == IF q = "movable" THEN s
                ELSE IF q = "fixed" THEN (s + 8) % 12 ELSE (s + 4) % 12
    IN  (base + p) % 12

\* An "odd" sign in the 1-based count: Aries, index 0, is one.
ODD(s) == s % 2 = 0

\* A mutant of horaSign: the halves of an even sign not reversed.
horaSign_SameForAll(s, within) ==
    LET first == within < Deg(15)
    IN  IF first THEN 4 ELSE 3

horaSign(s, within) ==
    LET first == within < Deg(15)
        odd == ODD(s)
    IN  IF odd THEN (IF first THEN 4 ELSE 3)
        ELSE (IF first THEN 3 ELSE 4)

\* A mutant of drekkanaSign: the offsets of the second and third part
\* exchanged.
drekkanaSign_OffsetsSwapped(s, within) ==
    LET p == FloorDiv(within, Deg(10))
        add == At(<<0, 8, 4>>, p)
    IN  (s + add) % 12

\* A mutant of drekkanaSign: the sum not brought back into 0..11.
drekkanaSign_NoWrap(s, within) ==
    LET p == FloorDiv(within, Deg(10))
        add == At(<<0, 4, 8>>, p)
    IN  s + add

drekkanaSign(s, within) ==
    LET p == FloorDiv(within, Deg(10))
        add == At(<<0, 4, 8>>, p)
    IN  (s + add) % 12

\* A mutant of saptamsaSign: an even sign counted from itself as well.
saptamsaSign_NoSeventh(s, within) ==
    LET p == FloorDiv(7 * within, Deg(30))
    IN  (s + p) % 12

\* within / (30 / 7) is 7 * within / 30.
saptamsaSign(s, within) ==
    LET p == FloorDiv(7 * within, Deg(30))
        base == IF ODD(s) THEN s ELSE (s + 6) % 12
    IN  (base + p) % 12

\* A mutant of dasamsaSign: an even sign counted from the 7th instead of the
\* 9th.
dasamsaSign_FromSeventh(s, within) ==
    LET p == FloorDiv(within, Deg(3))
        base == IF ODD(s) THEN s ELSE (s + 6) % 12
    IN  (base + p) % 12

dasamsaSign(s, within) ==
    LET p == FloorDiv(within, Deg(3))
        base == IF ODD(s) THEN s ELSE (s + 8) % 12
    IN  (base + p) % 12

\* A mutant of dwadasamsaSign: parts of 3 degrees instead of 2.5.
dwadasamsaSign_WideParts(s, within) ==
    LET p == FloorDiv(within, Deg(3))
    IN  (s + p) % 12

dwadasamsaSign(s, within) ==
    LET p == FloorDiv(within, Deg(5) \div 2)
    IN  (s + p) % 12

\* A mutant of trimshamsaSign: the third threshold at 17 instead of 18.
trimshamsaSign_EarlyThird(s, within) ==
    LET odd == ODD(s)
    IN  IF odd
        THEN IF within < Deg(5) THEN 0
             ELSE IF within < Deg(10) THEN 10
             ELSE IF within < Deg(17) THEN 8
             ELSE IF within < Deg(25) THEN 2
             ELSE 6
        ELSE IF within < Deg(5) THEN 7
             ELSE IF within < Deg(10) THEN 9
             ELSE IF within < Deg(17) THEN 11
             ELSE IF within < Deg(25) THEN 5
             ELSE 1

trimshamsaSign(s, within) ==
    LET odd == ODD(s)
    IN  IF odd
        THEN IF within < Deg(5) THEN 0
             ELSE IF within < Deg(10) THEN 10
             ELSE IF within < Deg(18) THEN 8
             ELSE IF within < Deg(25) THEN 2
             ELSE 6
        ELSE IF within < Deg(5) THEN 7
             ELSE IF within < Deg(10) THEN 9
             ELSE IF within < Deg(18) THEN 11
             ELSE IF within < Deg(25) THEN 5
             ELSE 1

(* ---------------- nakshatra ---------------- *)

NAK_NAMES == <<"Ashwini", "Bharani", "Krittika", "Rohini", "Mrigashira",
               "Ardra", "Punarvasu", "Pushya", "Ashlesha", "Magha",
               "Purva Phalguni", "Uttara Phalguni", "Hasta", "Chitra",
               "Swati", "Vishakha", "Anuradha", "Jyeshtha", "Mula",
               "Purva Ashadha", "Uttara Ashadha", "Shravana", "Dhanishta",
               "Shatabhisha", "Purva Bhadrapada", "Uttara Bhadrapada",
               "Revati">>

LORD_SEQ == <<"Ketu", "Venus", "Sun", "Moon", "Mars", "Rahu", "Jupiter",
              "Saturn", "Mercury">>

DEG_PER_NAK == Deg(360) \div 27

DEG_PER_PADA == DEG_PER_NAK \div 4

\* A mutant of nakForDeg: the index rounded to the nearest span instead of
\* floored.
nakForDeg_RoundIndex(deg, r) ==
    LET L == norm360(deg)
        idx == FloorDiv(2 * L + DEG_PER_NAK, 2 * DEG_PER_NAK)
        within == L - idx * DEG_PER_NAK
        pada == FloorDiv(within, DEG_PER_PADA) + 1
        lord == At(LORD_SEQ, idx % 9)
    IN  [index |-> idx, name |-> At(NAK_NAMES, idx), pada |-> pada, lord |-> lord]

\* r is the way the doubles round on a span or pada edge.  The quotient of a
\* whole-degree longitude by the span is exact; its offset in the span, a
\* difference with a rounded product, is not unless it is zero.
nakForDeg(deg, r) ==
    LET L == norm360(deg)
        idx == FloorR(L, DEG_PER_NAK, Inexact(L) /\ r = "quotientBelow")
        within == L - idx * DEG_PER_NAK
        pada == FloorR(within, DEG_PER_PADA,
                       (Inexact(L) \/ within > 0) /\ r # "exact") + 1
        lord == At(LORD_SEQ, idx % 9)
    IN  [index |-> idx, name |-> At(NAK_NAMES, idx), pada |-> pada, lord |-> lord]

(* ---------------- panchanga ---------------- *)

TITHI_15 == <<"Pratipada", "Dvitiya", "Tritiya", "Chaturthi", "Panchami",
              "Shashthi", "Saptami", "Ashtami", "Navami", "Dashami",
              "Ekadashi", "Dwadashi", "Trayodashi", "Chaturdashi", "Purnima">>

TITHI_15_KRISHNA_LAST == "Amavasya"

YOGAS_27 == <<"Vishkumbha", "Preeti", "Ayushman", "Saubhagya", "Shobhana",
              "Atiganda", "Sukarma", "Dhriti", "Shoola", "Ganda", "Vriddhi",
              "Dhruva", "Vyaghata", "Harshana", "Vajra", "Siddhi",
              "Vyatipata", "Variyan", "Parigha", "Shiva", "Siddha", "Sadhya",
              "Shubha", "Shukla", "Brahma", "Indra", "Vaidhriti">>

KARANA_ROT == <<"Bava", "Balava", "Kaulava", "Taitila", "Garaja", "Vanija",
                "Vishti">>

KARANA_END == <<"Shakuni", "Chatushpada", "Naga">>

\* The chart record handed over by /api/chart, or null.
NullChart == [null |-> TRUE]

Chart(asc, positions, jd, tz, aspects) ==
    [null |-> FALSE, ascendant |-> asc, positions |-> positions,
     jd_ut |-> jd, timezone |-> tz, aspects |-> aspects]

\* positions is an object: its keys in insertion order, each with a value.
Entry(n, d) == [name |-> n, deg |-> d]

Keys(positions) == [i \in 1..Len(positions) |-> positions[i].name]

\* The property read positions[name]: undefined when the key is absent.
Get(positions, name) ==
    IF \E i \in 1..Len(positions) : positions[i].name = name
    THEN positions[CHOOSE i \in 1..Len(positions) : positions[i].name = name].deg
    ELSE Undefined

\* Julian days are counted in half hours (48 per day).
JD(days) == Num(days * 48)

\* jdToDate: half hours since 1970-01-01T00:00Z, or an invalid Date.
jdToDate(jd_ut) ==
    IF IsFinite(jd_ut)
    THEN [valid |-> TRUE, hh |-> jd_ut.v - (2440587 * 48 + 24)]
    ELSE [valid |-> FALSE, hh |-> 0]

\* The zones Intl resolves here, with their offset from UTC in half hours;
\* any other identifier makes the Intl.DateTimeFormat constructor throw.
TZ_OFFSET == [z \in {"UTC", "Asia/Kolkata", "Asia/Tokyo"} |->
                 IF z = "UTC" THEN 0 ELSE IF z = "Asia/Kolkata" THEN 11 ELSE 18]

WEEKDAYS == <<"Sunday", "Monday", "Tuesday", "Wednesday", "Thursday",
              "Friday", "Saturday">>

\* new Intl.DateTimeFormat('en-US', {weekday: 'long', timeZone}).format(date):
\* a RangeError for an unknown zone or an invalid date, else the weekday
\* (1970-01-01 was a Thursday).
formatWeekday(date, timeZone) ==
    IF timeZone \notin DOMAIN TZ_OFFSET THEN [threw |-> TRUE, v |-> "RangeError"]
    ELSE IF ~date.valid THEN [threw |-> TRUE, v |-> "RangeError"]
    ELSE [threw |-> FALSE,
          v |-> At(WEEKDAYS, (4 + ((date.hh + TZ_OFFSET[timeZone]) \div 48)) % 7)]

\* A mutant of tithiOf: the tithi counted from 0.
tithiOf_ZeroBased(diff) ==
    LET tithiNum == FloorDiv(diff, Deg(12))
        paksha == IF tithiNum <= 15 THEN "Shukla" ELSE "Krishna"
        idx15 == (tithiNum - 1) % 15
        tithiName == IF paksha = "Shukla" THEN At(TITHI_15, idx15)
                     ELSE IF idx15 = 14 THEN TITHI_15_KRISHNA_LAST
                     ELSE At(TITHI_15, idx15)
    IN  [tithiNum |-> tithiNum, tithiName |-> tithiName, paksha |-> paksha]

\* The tithi of a Moon-minus-Sun separation diff in [0,360).
tithiOf(diff) ==
    LET tithiNum == FloorDiv(diff, Deg(12)) + 1
        paksha == IF tithiNum <= 15 THEN "Shukla" ELSE "Krishna"
        idx15 == (tithiNum - 1) % 15
        tithiName == IF paksha = "Shukla" THEN At(TITHI_15, idx15)
                     ELSE IF idx15 = 14 THEN TITHI_15_KRISHNA_LAST
                     ELSE At(TITHI_15, idx15)
    IN  [tithiNum |-> tithiNum, tithiName |-> tithiName, paksha |-> paksha]

\* A mutant of karanaOf: the ending table entered one index late.
karanaOf_LateEnd(diff) ==
    LET karIdx == FloorDiv(diff, Deg(6))
    IN  IF karIdx = 0 THEN "Kimstughna"
        ELSE IF karIdx > 57 THEN At(KARANA_END, karIdx - 57)
        ELSE At(KARANA_ROT, (karIdx - 1) % 7)

\* The karana name of a separation diff in [0,360).
karanaOf(diff) ==
    LET karIdx == FloorDiv(diff, Deg(6))
    IN  IF karIdx = 0 THEN "Kimstughna"
        ELSE IF karIdx >= 57 THEN At(KARANA_END, karIdx - 57)
        ELSE At(KARANA_ROT, (karIdx - 1) % 7)

\* A mutant of yogaOf: the table entered one index late.
yogaOf_OneBased(yogaAngle, r) ==
    LET yogaIdx == FloorR(yogaAngle, DEG_PER_NAK,
                          Inexact(yogaAngle) /\ r = "quotientBelow") + 1
    IN  At(YOGAS_27, yogaIdx)

\* The yoga name of a Moon-plus-Sun angle in [0,360); r is the way the
\* doubles round when the angle is a whole number of spans.
yogaOf(yogaAngle, r) ==
    LET yogaIdx == FloorR(yogaAngle, DEG_PER_NAK,
                          Inexact(yogaAngle) /\ r = "quotientBelow")
    IN  At(YOGAS_27, yogaIdx)

Returned(v) == [kind |-> "value", value |-> v]

ReturnedNull == [kind |-> "null"]

Threw(e) == [kind |-> "threw", error |-> e]

\* rNak and rYoga are the ways the doubles round in nakForDeg(moon) and in
\* the yoga quotient.
panchangaFrom(out, rNak, rYoga) ==
    IF out.null THEN ReturnedNull
    ELSE
    LET sun == Get(out.positions, "Sun")
        moon == Get(out.positions, "Moon")
    IN  IF ~IsFinite(sun) \/ ~IsFinite(moon) THEN ReturnedNull
        ELSE
        LET birthUTC == jdToDate(out.jd_ut)
            vara == formatWeekday(birthUTC, out.timezone)
            diff == norm360(moon.v - sun.v)
            tithi == tithiOf(diff)
            nk == nakForDeg(moon.v, rNak)
            yogaAngle == norm360(moon.v + sun.v)
            yogaName == yogaOf(yogaAngle, rYoga)
            karanaName == karanaOf(diff)
        IN  IF vara.threw THEN Threw(vara.v)
            ELSE Returned([vara |-> vara.v,
                           tithiNum |-> tithi.tithiNum,
                           tithiName |-> tithi.tithiName,
                           paksha |-> tithi.paksha,
                           nakshatra |-> nk.name,
                           pada |-> nk.pada,
                           yoga |-> yogaName,
                           karana |-> karanaName])

(* ---------------- aspects, including the Ascendant ---------------- *)

\* A mutant of ASPECTS_DEF: a Trine orb wide enough to reach the Square.
ASPECTS_DEF_WideTrine ==
    <<[name |-> "Conjunction", angle |-> Deg(0), orb |-> Deg(6)],
      [name |-> "Opposition", angle |-> Deg(180), orb |-> Deg(6)],
      [name |-> "Trine", angle |-> Deg(120), orb |-> Deg(30)],
      [name |-> "Square", angle |-> Deg(90), orb |-> Deg(5)],
      [name |-> "Sextile", angle |-> Deg(60), orb |-> Deg(4)]>>

ASPECTS_DEF == <<[name |-> "Conjunction", angle |-> Deg(0), orb |-> Deg(6)],
                 [name |-> "Opposition", angle |-> Deg(180), orb |-> Deg(6)],
                 [name |-> "Trine", angle |-> Deg(120), orb |-> Deg(5)],
                 [name |-> "Square", angle |-> Deg(90), orb |-> Deg(5)],
                 [name |-> "Sextile", angle |-> Deg(60), orb |-> Deg(4)]>>

\* Math.abs
Abs(x) == IF x < 0 THEN -x ELSE x

\* Math.min
Min(x, y) == IF x <= y THEN x ELSE y

\* A mutant of angDiff: the raw difference, not the shorter arc.
angDiff_RawDifference(a, b) ==
    IF IsFinite(a) /\ IsFinite(b)
    THEN Num(Abs(norm360(a.v) - norm360(b.v)))
    ELSE NaN

\* angDiff on JavaScript numbers: NaN as soon as one argument is not finite.
angDiff(a, b) ==
    IF IsFinite(a) /\ IsFinite(b)
    THEN LET d == Abs(norm360(a.v) - norm360(b.v))
         IN  Num(Min(d, Deg(360) - d))
    ELSE NaN

\* +x.toFixed(2): the nearest hundredth of a degree, a tie away from zero.
toFixed2(x) ==
    LET cent == Scale \div 100
        n == (Abs(x) + cent \div 2) \div cent
    IN  IF x < 0 THEN -(n * cent) ELSE n * cent

AspectPair(a, b, type, delta) == [a |-> a, b |-> b, type |-> type, delta |-> delta]

\* A mutant of aspectFor: the loop does not stop at the first match and the
\* deviation is stored unsigned.
RECURSIVE aspectFor_AllUnsigned(_, _, _)
aspectFor_AllUnsigned(n, d, j) ==
    IF j > Len(ASPECTS_DEF) THEN <<>>
    ELSE LET A == ASPECTS_DEF[j]
         IN  IF IsFinite(d) /\ Abs(d.v - A.angle) <= A.orb
             THEN <<AspectPair("Ascendant", n, A.name, toFixed2(Abs(d.v - A.angle)))>>
                  \o aspectFor_AllUnsigned(n, d, j + 1)
             ELSE aspectFor_AllUnsigned(n, d, j + 1)

\* The inner loop of deriveAscAspects from definition j on: the record pushed
\* for body n at angular distance d (none when no definition matches).
RECURSIVE aspectFor(_, _, _)
aspectFor(n, d, j) ==
    IF j > Len(ASPECTS_DEF) THEN <<>>
    ELSE LET A == ASPECTS_DEF[j]
         IN  IF IsFinite(d) /\ Abs(d.v - A.angle) <= A.orb
             THEN <<AspectPair("Ascendant", n, A.name, toFixed2(d.v - A.angle))>>
             ELSE aspectFor(n, d, j + 1)

\* The outer loop of deriveAscAspects from key i on.
RECURSIVE ascAspectsFrom(_, _)
ascAspectsFrom(out, i) ==
    IF i > Len(out.positions) THEN <<>>
    ELSE LET n == Keys(out.positions)[i]
             deg == Get(out.positions, n)
         IN  IF ~IsFinite(deg) THEN ascAspectsFrom(out, i + 1)
             ELSE aspectFor(n, angDiff(out.ascendant, deg), 1)
                  \o ascAspectsFrom(out, i + 1)

\* A mutant of deriveAscAspects: the pairs array kept at module level and
\* never emptied, so a call appends to what the remembered call returned.
deriveAscAspects_SharedPairs(out) ==
    (IF earlier.fn = "deriveAscAspects" THEN earlier.ret.pairs ELSE <<>>)
        \o ascAspectsFrom(out, 1)

deriveAscAspects(out) == ascAspectsFrom(out, 1)

\* The Map key of mergeAspects.
key(p) == p.a \o "|" \o p.type \o "|" \o p.b

\* Map.prototype.set on a Map kept as its entries in insertion order: a known
\* key keeps its place and takes the new value, a new key goes last.
MapSet(m, k, v) ==
    IF \E i \in 1..Len(m) : m[i].k = k
    THEN [i \in 1..Len(m) |-> IF m[i].k = k THEN [k |-> k, v |-> v] ELSE m[i]]
    ELSE Append(m, [k |-> k, v |-> v])

RECURSIVE MapSetAll(_, _, _)
MapSetAll(m, ps, i) ==
    IF i > Len(ps) THEN m ELSE MapSetAll(MapSet(m, key(ps[i]), ps[i]), ps, i + 1)

mergeAspects(existing, ascOnes) ==
    LET m == MapSetAll(MapSetAll(<<>>, existing, 1), ascOnes, 1)
    IN  [i \in 1..Len(m) |-> m[i].v]

(* ---------------- varga placements ---------------- *)

BODIES == <<"Ascendant", "Sun", "Moon", "Mercury", "Venus", "Mars", "Jupiter",
            "Saturn", "Rahu", "Ketu", "Uranus", "Neptune", "Pluto">>

getDeg(positions, asc, name) ==
    IF name = "Ascendant" THEN asc ELSE Get(positions, name)

\* The callback of bodies.map: null for a longitude that is not finite, else
\* the row of sign names.
vargaRow(positions, asc, b) ==
    LET deg == getDeg(positions, asc, b)
    IN  IF ~IsFinite(deg) THEN [some |-> FALSE, row |-> [body |-> b]]
        ELSE
        LET s == signIndex(deg.v)
            within == JsRem(norm360(deg.v), Deg(30))
        IN  [some |-> TRUE,
             row |-> [body |-> b,
                      D1 |-> At(SIGNS, s),
                      D2 |-> At(SIGNS, horaSign(s, within)),
                      D3 |-> At(SIGNS, drekkanaSign(s, within)),
                      D7 |-> At(SIGNS, saptamsaSign(s, within)),
                      D9 |-> At(SIGNS, navamsaSign(s, within)),
                      D10 |-> At(SIGNS, dasamsaSign(s, within)),
                      D12 |-> At(SIGNS, dwadasamsaSign(s, within)),
                      D30 |-> At(SIGNS, trimshamsaSign(s, within))]]

\* .filter(Boolean): the nulls dropped, the rows kept in order.
filterBoolean(mapped) ==
    LET Kept(r) == r.some
        rows == SelectSeq(mapped, Kept)
    IN  [i \in 1..Len(rows) |-> rows[i].row]

\* A mutant of vargaPlacements: the rows end at the first body whose
\* longitude is not finite.
vargaPlacements_StopAtMissing(positions, asc) ==
    LET mapped == [i \in 1..Len(BODIES) |-> vargaRow(positions, asc, BODIES[i])]
        Before(i) == \A j \in 1..i : mapped[j].some
        n == Cardinality({i \in 1..Len(BODIES) : Before(i)})
    IN  filterBoolean(SubSeq(mapped, 1, n))

vargaPlacements(positions, asc) ==
    LET mapped == [i \in 1..Len(BODIES) |-> vargaRow(positions, asc, BODIES[i])]
    IN  filterBoolean(mapped)

(* ---------------- inputs ---------------- *)

\* Whole turns added to or taken from a longitude.
MaxTurn == 1

\* Units (1/Scale of a degree) tried on either side of every grid point.
MaxEps == 1

\* Longest aspect list handed to mergeAspects.
MaxAspects == 2

\* Two thirds of a degree: every edge of a pada, a navamsa, a nakshatra, a
\* karana and a tithi is a multiple of it; so are points inside each band.
GridStep == (2 * Scale) \div 3

\* The longitudes quoted in the specification's examples, one span exactly
\* and the first ten-thousandth of a degree past it.
SpecLons == {0, TenThousandths(133333), DEG_PER_NAK, TenThousandths(133334),
             TenThousandths(1799990),
             Deg(180), Deg(354), Deg(100), Deg(280)}

Grid(turns) ==
    {t * Deg(360) + k * GridStep + e :
        t \in turns, k \in 0..(Deg(360) \div GridStep - 1), e \in (-MaxEps)..MaxEps}

Lons == Grid((-MaxTurn)..MaxTurn) \cup SpecLons

\* Offsets from a sign boundary, in units: the boundary, its neighbours, and
\* the half arc-second on either side with its neighbours.
FmtOffsets ==
    LET h == ArcSecond \div 2
    IN  {-(h + 1), -h, -(h - 1), -1, 0, 1, h - 1, h, h + 1}

\* Longitudes about every sign boundary of the turns, and a mid-sign one.
FmtLons ==
    {Deg(30 * k) + e : k \in (-12 * MaxTurn)..(12 * MaxTurn + 12), e \in FmtOffsets}
        \cup {TenThousandths(1234567)}

OneTurnLons == Grid({0}) \cup SpecLons

Withins == {w \in Grid({0}) : 0 <= w /\ w < Deg(30)}

SunLons == {0, Deg(10), Deg(350) + 1, -Deg(30)}

TimeZones == {"UTC", "Asia/Kolkata", "Asia/Tokyo", "Chicago/America", ""}

\* 2000-01-01T12:00Z (the demo chart's jd_ut), eleven hours later, and NaN.
JulianDays == {JD(2451545), Num(2451545 * 48 + 22), NaN}

SunMoon(sun, moon) == <<Entry("Sun", sun), Entry("Moon", moon)>>

\* Charts for the panchanga: every Moon of one turn against a few Suns in a
\* resolvable zone, and a few Sun/Moon values and absences against every zone
\* and instant.
PanchangaCharts ==
    {NullChart}
    \cup {Chart(Num(Deg(100)), SunMoon(Num(s), Num(m)), JD(2451545), "Asia/Kolkata", <<>>) :
            s \in SunLons, m \in OneTurnLons}
    \cup {Chart(Num(Deg(100)), SunMoon(s, m), jd, tz, <<>>) :
            s \in {Num(0)} \cup NonFinite, m \in {Num(Deg(354))} \cup NonFinite,
            jd \in JulianDays, tz \in TimeZones}
    \cup {Chart(Num(Deg(100)), ps, jd, tz, <<>>) :
            ps \in {<<>>, <<Entry("Sun", Num(0))>>, <<Entry("Moon", Num(0))>>},
            jd \in JulianDays, tz \in TimeZones}

\* Whole degrees of one turn with their neighbours, and two values that a
\* rounding to hundredths moves (280.004 and 280.005).
BodyLons == {k * Scale + e : k \in 0..359, e \in (-MaxEps)..MaxEps}
            \cup {Deg(280) + 4 * (Scale \div 1000), Deg(280) + 5 * (Scale \div 1000)}

AscLons == {Num(Deg(100)), Num(Deg(357)), Num(1 - Deg(10))}

OtherBodies == {<<>>, <<Entry("Moon", Num(Deg(280)))>>, <<Entry("Moon", NaN)>>}

AspectCharts ==
    {Chart(asc, <<Entry("Sun", Num(x))>> \o rest, JD(2451545), "UTC", <<>>) :
        asc \in AscLons, x \in BodyLons, rest \in OtherBodies}
    \cup {Chart(asc, <<Entry("Sun", x)>> \o rest, JD(2451545), "UTC", <<>>) :
        asc \in AscLons \cup NonFinite,
        x \in {Num(Deg(280)), Num(Deg(100)), NaN, Undefined}, rest \in OtherBodies}

\* Aspect records over two bodies: the same pair in both orders, two deltas,
\* and one record of another type.
AspectRecords ==
    {AspectPair(a, b, "Trine", d) :
        a \in {"Ascendant", "Sun"}, b \in {"Ascendant", "Sun"}, d \in {0, Deg(1)}}
    \cup {AspectPair("Ascendant", "Sun", "Square", 0)}

AspectLists ==
    UNION {[1..n -> {p \in AspectRecords : p.a # p.b}] : n \in 0..MaxAspects}

\* A sixth of a degree: every edge of a hora, a drekkana, a navamsa, a
\* dasamsa, a dwadasamsa and a trimshamsa band is a multiple of it.
VargaStep == Scale \div 6

\* The units on either side of each saptamsa edge k * 30/7, which is not a
\* whole number of units.
SaptamsaEdges ==
    UNION {{(k * Deg(30)) \div 7, (k * Deg(30)) \div 7 + 1} : k \in 1..6}

VargaGrid == {k * VargaStep + e : k \in 0..(Deg(360) \div VargaStep), e \in (-MaxEps)..MaxEps}

\* Within-sign degrees handed to the varga mappers: [0,30).
VargaWithins == {w \in VargaGrid : 0 <= w /\ w < Deg(30)} \cup SaptamsaEdges

\* Longitudes handed to vargaPlacements: one turn on the varga grid, and the
\* longitudes of several turns used for the nakshatra.
VargaLons == VargaGrid \cup Lons

\* Most bodies of one chart that lack a finite longitude.
MaxMissing == 2

\* How a body lacks a finite longitude: its key is absent, or its value is
\* NaN or Infinity.
MissingKinds == {Undefined, NaN, Infinity}

\* The longitude given to the i-th body of BODIES in a full chart.
FullLon(base, i) == base + i * Deg(37) + i * VargaStep

\* The positions object of a full chart in which the bodies of missing lack
\* a finite longitude in the way of kind.
FullPositions(base, missing, kind) ==
    LET all == [i \in 1..(Len(BODIES) - 1) |->
                   Entry(BODIES[i + 1],
                         IF BODIES[i + 1] \in missing THEN kind
                         ELSE Num(FullLon(base, i + 1)))]
        Present(e) == e.deg # Undefined
    IN  SelectSeq(all, Present)

MissingSets ==
    {m \in SUBSET {BODIES[i] : i \in 2..Len(BODIES)} : Cardinality(m) <= MaxMissing}

VargaAscs == {Num(Deg(100)), Num(-Deg(10)), NaN, Undefined}

\* Charts for vargaPlacements: one body over every longitude, and full
\* charts with a few bodies missing.
VargaCharts ==
    {[positions |-> <<Entry("Sun", Num(x))>>, asc |-> Num(Deg(100))] : x \in VargaLons}
    \cup {[positions |-> FullPositions(base, m, kind), asc |-> asc] :
            base \in {0, -Deg(400)}, m \in MissingSets, kind \in MissingKinds,
            asc \in VargaAscs}

\* First arguments of angDiff: every eighth of a turn, in several turns, with
\* its neighbours.
AngLonsA ==
    {t * Deg(360) + k * Deg(45) + e :
        t \in (-MaxTurn)..MaxTurn, k \in 0..7, e \in (-MaxEps)..MaxEps}

\* Second arguments of angDiff.
AngLonsB == {0, Deg(45) + 1, Deg(100), Deg(180), Deg(360) - 1, -Deg(10),
             Deg(725), -Deg(540)}

(* ---------------- the engine as a state machine ---------------- *)

\* No call in progress.
Idle == [idle |-> TRUE]

\* A number handed back.
Value(v) == [value |-> v]

\* A list of aspect records handed back.
Pairs(ps) == [pairs |-> ps]

\* A JavaScript number handed back.
Number(x) == [number |-> x]

\* A printed text, as its fields.
Text(t) == [text |-> t]

\* A list of varga rows handed back.
Rows(rs) == [rows |-> rs]

\* A blank select ('' in the code) of the day, month and year dropdowns,
\* whose options are all positive.
Blank == 0

\* A JSON value as the page reads it: null, or an object with or without an
\* error field.
JsonNull == [null |-> TRUE, error |-> ""]

JsonError(msg) == [null |-> FALSE, error |-> msg]

JsonObject == [null |-> FALSE, error |-> ""]

\* No auto-geocode timer is set; a set timer is the place text it holds.
NoTimer == ""

\* No geocode answer was applied by the last step.
NotApplied == [applied |-> FALSE, q |-> "", place |-> "", lat |-> "", lon |-> ""]

\* No earlier call is remembered.
NoCall == [fn |-> "none", args |-> [idle |-> TRUE], ret |-> [idle |-> TRUE]]

\* A timezone text as its parts about the '/'; the empty text has none.
NoZone == <<>>

\* The page after its first render: resetAll has run, every field is blank,
\* nothing is loading, and the effects of the first render have returned at
\* the blank fields.
BlankPage ==
    /\ formName = ""
    /\ place = ""
    /\ lat = ""
    /\ lon = ""
    /\ year = Blank
    /\ month = Blank
    /\ day = Blank
    /\ timeStr = ""
    /\ timezone = NoZone
    /\ loading = FALSE
    /\ chartOut = JsonNull
    /\ err = JsonNull
    /\ chartCall = "idle"
    /\ sent = {}
    /\ clampEffect = FALSE
    /\ geoTimer = NoTimer
    /\ geoRequests = {}
    /\ geoApplied = NotApplied

Init ==
    /\ fn = "idle"
    /\ args = Idle
    /\ ret = Idle
    /\ BlankPage
    /\ earlier = NoCall

Call_norm360 ==
    /\ fn = "idle"
    /\ \E x \in Lons :
        /\ fn' = "norm360"
        /\ args' = [x |-> x]
        /\ ret' = Value(norm360(x))
    /\ UNCHANGED <<pageVars, earlier>>

Call_navamsaSign ==
    /\ fn = "idle"
    /\ \E s \in 0..11, within \in Withins :
        /\ fn' = "navamsaSign"
        /\ args' = [s |-> s, within |-> within]
        /\ ret' = Value(navamsaSign(s, within))
    /\ UNCHANGED <<pageVars, earlier>>

Call_nakForDeg ==
    /\ fn = "idle"
    /\ \E deg \in Lons, r \in Roundings :
        /\ fn' = "nakForDeg"
        /\ args' = [deg |-> deg]
        /\ ret' = nakForDeg(deg, r)
    /\ UNCHANGED <<pageVars, earlier>>

Call_panchangaFrom ==
    /\ fn = "idle"
    /\ \E out \in PanchangaCharts, rNak \in Roundings, rYoga \in Roundings :
        /\ fn' = "panchangaFrom"
        /\ args' = [out |-> out]
        /\ ret' = panchangaFrom(out, rNak, rYoga)
    /\ UNCHANGED <<pageVars, earlier>>

Call_deriveAscAspects ==
    /\ fn = "idle"
    /\ \E out \in AspectCharts :
        /\ fn' = "deriveAscAspects"
        /\ args' = [out |-> out]
        /\ ret' = Pairs(deriveAscAspects(out))
    /\ UNCHANGED <<pageVars, earlier>>

Call_mergeAspects ==
    /\ fn = "idle"
    /\ \E existing \in AspectLists, ascOnes \in AspectLists :
        /\ fn' = "mergeAspects"
        /\ args' = [existing |-> existing, ascOnes |-> ascOnes]
        /\ ret' = Pairs(mergeAspects(existing, ascOnes))
    /\ UNCHANGED <<pageVars, earlier>>

Call_horaSign ==
    /\ fn = "idle"
    /\ \E s \in 0..11, within \in VargaWithins :
        /\ fn' = "horaSign"
        /\ args' = [s |-> s, within |-> within]
        /\ ret' = Value(horaSign(s, within))
    /\ UNCHANGED <<pageVars, earlier>>

Call_drekkanaSign ==
    /\ fn = "idle"
    /\ \E s \in 0..11, within \in VargaWithins :
        /\ fn' = "drekkanaSign"
        /\ args' = [s |-> s, within |-> within]
        /\ ret' = Value(drekkanaSign(s, within))
    /\ UNCHANGED <<pageVars, earlier>>

Call_saptamsaSign ==
    /\ fn = "idle"
    /\ \E s \in 0..11, within \in VargaWithins :
        /\ fn' = "saptamsaSign"
        /\ args' = [s |-> s, within |-> within]
        /\ ret' = Value(saptamsaSign(s, within))
    /\ UNCHANGED <<pageVars, earlier>>

Call_dasamsaSign ==
    /\ fn = "idle"
    /\ \E s \in 0..11, within \in VargaWithins :
        /\ fn' = "dasamsaSign"
        /\ args' = [s |-> s, within |-> within]
        /\ ret' = Value(dasamsaSign(s, within))
    /\ UNCHANGED <<pageVars, earlier>>

Call_dwadasamsaSign ==
    /\ fn = "idle"
    /\ \E s \in 0..11, within \in VargaWithins :
        /\ fn' = "dwadasamsaSign"
        /\ args' = [s |-> s, within |-> within]
        /\ ret' = Value(dwadasamsaSign(s, within))
    /\ UNCHANGED <<pageVars, earlier>>

Call_trimshamsaSign ==
    /\ fn = "idle"
    /\ \E s \in 0..11, within \in VargaWithins :
        /\ fn' = "trimshamsaSign"
        /\ args' = [s |-> s, within |-> within]
        /\ ret' = Value(trimshamsaSign(s, within))
    /\ UNCHANGED <<pageVars, earlier>>

Call_vargaPlacements ==
    /\ fn = "idle"
    /\ \E c \in VargaCharts :
        /\ fn' = "vargaPlacements"
        /\ args' = [positions |-> c.positions, asc |-> c.asc]
        /\ ret' = Rows(vargaPlacements(c.positions, c.asc))
    /\ UNCHANGED <<pageVars, earlier>>

Call_angDiff ==
    /\ fn = "idle"
    /\ \E a \in AngLonsA, b \in AngLonsB :
        /\ fn' = "angDiff"
        /\ args' = [a |-> Num(a), b |-> Num(b)]
        /\ ret' = Number(angDiff(Num(a), Num(b)))
    /\ UNCHANGED <<pageVars, earlier>>

Call_fmtSignDeg ==
    /\ fn = "idle"
    /\ \E deg \in FmtLons :
        /\ fn' = "fmtSignDeg"
        /\ args' = [x |-> deg]
        /\ ret' = Text(fmtSignDeg(deg))
    /\ UNCHANGED <<pageVars, earlier>>

\* The caller takes the result; the engine keeps nothing.
Return ==
    /\ fn # "idle"
    /\ fn' = "idle"
    /\ args' = Idle
    /\ ret' = Idle
    /\ UNCHANGED <<pageVars, earlier>>

Next ==
    \/ Call_norm360
    \/ Call_navamsaSign
    \/ Call_nakForDeg
    \/ Call_panchangaFrom
    \/ Call_deriveAscAspects
    \/ Call_mergeAspects
    \/ Call_horaSign
    \/ Call_drekkanaSign
    \/ Call_saptamsaSign
    \/ Call_dasamsaSign
    \/ Call_dwadasamsaSign
    \/ Call_trimshamsaSign
    \/ Call_vargaPlacements
    \/ Call_angDiff
    \/ Call_fmtSignDeg
    \/ Return

Spec == Init /\ [][Next]_vars

(***************************************************************************)
(* The four functions of a chart computation called again and again.  One  *)
(* completed call is remembered (earlier), so that a later call with the   *)
(* same inputs can be held against it.  A longitude on a span edge stands  *)
(* for the doubles about it; which of them a chart holds (how its          *)
(* quotients round) is part of the input.                                  *)
(***************************************************************************)

AgainPanchangaCharts ==
    {NullChart,
     Chart(Num(Deg(100)), SunMoon(Num(0), Num(Deg(354))), JD(2451545), "Asia/Kolkata", <<>>),
     Chart(Num(Deg(100)), SunMoon(Num(Deg(10)), Num(DEG_PER_NAK)), JD(2451545), "UTC", <<>>)}

AgainAspectCharts ==
    {Chart(Num(Deg(100)), <<Entry("Sun", Num(Deg(164)))>>, JD(2451545), "UTC", <<>>),
     Chart(Num(Deg(100)), <<Entry("Sun", Num(Deg(280))), Entry("Moon", Num(Deg(101)))>>,
           JD(2451545), "UTC", <<>>),
     Chart(NaN, <<Entry("Sun", Num(Deg(280)))>>, JD(2451545), "UTC", <<>>)}

AgainAspectLists ==
    {<<>>,
     <<AspectPair("Ascendant", "Sun", "Trine", 0)>>,
     <<AspectPair("Sun", "Ascendant", "Trine", Deg(1)),
       AspectPair("Ascendant", "Sun", "Square", 0)>>}

AgainVargaCharts ==
    {[positions |-> <<Entry("Sun", Num(Deg(100)))>>, asc |-> Num(Deg(100))],
     [positions |-> FullPositions(0, {}, Undefined), asc |-> Num(-Deg(10))],
     [positions |-> FullPositions(-Deg(400), {"Moon"}, NaN), asc |-> NaN]}

Again_panchangaFrom ==
    /\ fn = "idle"
    /\ \E out \in AgainPanchangaCharts, rNak \in Roundings, rYoga \in Roundings :
        /\ fn' = "panchangaFrom"
        /\ args' = [out |-> out, rounding |-> <<rNak, rYoga>>]
        /\ ret' = panchangaFrom(out, rNak, rYoga)
    /\ UNCHANGED <<pageVars, earlier>>

Again_deriveAscAspects ==
    /\ fn = "idle"
    /\ \E out \in AgainAspectCharts :
        /\ fn' = "deriveAscAspects"
        /\ args' = [out |-> out]
        /\ ret' = Pairs(deriveAscAspects(out))
    /\ UNCHANGED <<pageVars, earlier>>

Again_mergeAspects ==
    /\ fn = "idle"
    /\ \E existing \in AgainAspectLists, ascOnes \in AgainAspectLists :
        /\ fn' = "mergeAspects"
        /\ args' = [existing |-> existing, ascOnes |-> ascOnes]
        /\ ret' = Pairs(mergeAspects(existing, ascOnes))
    /\ UNCHANGED <<pageVars, earlier>>

Again_vargaPlacements ==
    /\ fn = "idle"
    /\ \E c \in AgainVargaCharts :
        /\ fn' = "vargaPlacements"
        /\ args' = [positions |-> c.positions, asc |-> c.asc]
        /\ ret' = Rows(vargaPlacements(c.positions, c.asc))
    /\ UNCHANGED <<pageVars, earlier>>

\* The caller takes the result, and the call is the one remembered from
\* now on.
Remember ==
    /\ fn # "idle"
    /\ earlier' = [fn |-> fn, args |-> args, ret |-> ret]
    /\ fn' = "idle"
    /\ args' = Idle
    /\ ret' = Idle
    /\ UNCHANGED pageVars

NextAgain ==
    \/ Again_panchangaFrom
    \/ Again_deriveAscAspects
    \/ Again_mergeAspects
    \/ Again_vargaPlacements
    \/ Remember
    \/ Return

SpecAgain == Init /\ [][NextAgain]_vars

(***************************************************************************)
(* The page.  An event handler runs to its end or to its first await in    *)
(* one step; React runs the effects of a render before it handles the next *)
(* event, so a handler is taken only when no effect is waiting.            *)
(***************************************************************************)

engineVars == <<fn, args, ret, earlier>>

\* The options of the year, month and day dropdowns the runs select from:
\* a century year that is no leap year, one that is, a common year and a
\* leap year; months of 31, 28 or 29, and 30 days; the days about the end
\* of a month.
YearOptions == {1900, 2000, 2023, 2024}

MonthOptions == {1, 2, 4}

DayOptions == {1, 28, 29, 30, 31}

\* A mutant of daysInMonth: every fourth year a leap year.
daysInMonth_EveryFourth(y, m) ==
    IF y = Blank \/ m = Blank THEN 31
    ELSE CASE m = 2 -> IF y % 4 = 0 THEN 29 ELSE 28
           [] m \in {4, 6, 9, 11} -> 30
           [] OTHER -> 31

\* daysInMonth: 31 when the year or the month is missing, else the day of
\* the month of new Date(year, month, 0), the last day of the month in the
\* Gregorian calendar.
daysInMonth(y, m) ==
    IF y = Blank \/ m = Blank THEN 31
    ELSE LET leap == (y % 4 = 0 /\ y % 100 # 0) \/ y % 400 = 0
         IN  CASE m = 2 -> IF leap THEN 29 ELSE 28
               [] m \in {4, 6, 9, 11} -> 30
               [] OTHER -> 31

\* dateStr: empty until the three fields are set, then year-month-day with
\* the month and the day padded to two digits.
dateStr ==
    IF year = Blank \/ month = Blank \/ day = Blank THEN <<>>
    ELSE <<year, padStart2(month), padStart2(day)>>

\* The day dropdown: blank, or one of the days the month has (31 while the
\* year or the month is blank).  No effect depends on the day.
SelectDay ==
    /\ ~clampEffect
    /\ \E d \in DayOptions \cup {Blank} :
        /\ d <= daysInMonth(year, month)
        /\ d # day
        /\ day' = d
    /\ UNCHANGED <<formName, place, lat, lon, year, month, timeStr, timezone>>
    /\ UNCHANGED <<chartVars, clampEffect, geoVars, engineVars>>

\* The month dropdown; the change of month calls for the clamping effect.
SelectMonth ==
    /\ ~clampEffect
    /\ \E m \in MonthOptions \cup {Blank} :
        /\ m # month
        /\ month' = m
    /\ clampEffect' = TRUE
    /\ UNCHANGED <<formName, place, lat, lon, year, day, timeStr, timezone>>
    /\ UNCHANGED <<chartVars, geoVars, engineVars>>

\* The year dropdown; the change of year calls for the clamping effect.
SelectYear ==
    /\ ~clampEffect
    /\ \E y \in YearOptions \cup {Blank} :
        /\ y # year
        /\ year' = y
    /\ clampEffect' = TRUE
    /\ UNCHANGED <<formName, place, lat, lon, month, day, timeStr, timezone>>
    /\ UNCHANGED <<chartVars, geoVars, engineVars>>

\* The effect on [year, month]: nothing while a field is blank, else a day
\* past the end of the month becomes the last day of the month.
ClampDay ==
    /\ clampEffect
    /\ clampEffect' = FALSE
    /\ day' = IF day = Blank \/ year = Blank \/ month = Blank THEN day
              ELSE IF day > daysInMonth(year, month)
                   THEN daysInMonth(year, month)
                   ELSE day
    /\ UNCHANGED <<formName, place, lat, lon, year, month, timeStr, timezone>>
    /\ UNCHANGED <<chartVars, geoVars, engineVars>>

\* resetAll (the Reset button): every field blank, no chart and no error,
\* and with them no trace of how the last generateChart ended.
\* The change of year or month calls for the clamping effect; the change of
\* place runs the auto-geocode effect, whose cleanup clears the timer and
\* which sets none at a blank place.  What is in flight stays in flight.
resetAll ==
    /\ ~clampEffect
    /\ formName' = ""
    /\ place' = ""
    /\ lat' = ""
    /\ lon' = ""
    /\ year' = Blank
    /\ month' = Blank
    /\ day' = Blank
    /\ timeStr' = ""
    /\ timezone' = NoZone
    /\ chartOut' = JsonNull
    /\ err' = JsonNull
    /\ clampEffect' = (year # Blank \/ month # Blank)
    /\ geoTimer' = IF place # "" THEN NoTimer ELSE geoTimer
    /\ geoApplied' = NotApplied
    /\ chartCall' = IF chartCall = "awaiting" THEN chartCall ELSE "idle"
    /\ UNCHANGED <<loading, sent, geoRequests, engineVars>>

NextDate ==
    \/ SelectDay
    \/ SelectMonth
    \/ SelectYear
    \/ ClampDay
    \/ resetAll

SpecDate == Init /\ [][NextDate]_vars

(***************************************************************************)
(* The auto-geocode effect on [place].  A latitude or a longitude is the   *)
(* text of its number, '' when blank.                                      *)
(***************************************************************************)

\* The requests to /api/geocode that may be awaiting their answer at once.
MaxRequests == 2

\* The place texts typed, one of them only white space, and the latitudes
\* and longitudes typed.
PlaceTexts == {"", " ", "Chennai", "Chicago"}

LatTexts == {"", "10"}

LonTexts == {"", "20"}

\* place.trim(), for the texts above.
trim(text) == IF text = " " THEN "" ELSE text

\* The top hit the geocoder has for a query.
Top(q) ==
    IF q = "Chennai"
    THEN [name |-> "Chennai, Tamil Nadu, India", lat |-> "13.082700", lon |-> "80.270700"]
    ELSE [name |-> "Chicago, Illinois, USA", lat |-> "41.878100", lon |-> "-87.629800"]

\* The effect run for a place text: a timer when the place is not blank and
\* a coordinate is.
should(p, la, lo) == trim(p) # "" /\ (la = "" \/ lo = "")

\* Typing in the place field: the cleanup of the last run clears its timer,
\* the new run sets one if it should.
TypePlace ==
    /\ ~clampEffect
    /\ \E p \in PlaceTexts :
        /\ p # place
        /\ place' = p
        /\ geoTimer' = IF should(p, lat, lon) THEN p ELSE NoTimer
    /\ geoApplied' = NotApplied
    /\ UNCHANGED <<formName, lat, lon, year, month, day, timeStr, timezone>>
    /\ UNCHANGED <<chartVars, clampEffect, geoRequests, engineVars>>

\* Typing in the latitude field; the effect does not depend on it.
TypeLat ==
    /\ ~clampEffect
    /\ \E v \in LatTexts :
        /\ v # lat
        /\ lat' = v
    /\ geoApplied' = NotApplied
    /\ UNCHANGED <<formName, place, lon, year, month, day, timeStr, timezone>>
    /\ UNCHANGED <<chartVars, clampEffect, geoTimer, geoRequests, engineVars>>

\* Typing in the longitude field.
TypeLon ==
    /\ ~clampEffect
    /\ \E v \in LonTexts :
        /\ v # lon
        /\ lon' = v
    /\ geoApplied' = NotApplied
    /\ UNCHANGED <<formName, place, lat, year, month, day, timeStr, timezone>>
    /\ UNCHANGED <<chartVars, clampEffect, geoTimer, geoRequests, engineVars>>

\* The 600 ms are over: the request for the place text the timer holds goes
\* out.
GeoTimerFires ==
    /\ geoTimer # NoTimer
    /\ Cardinality(geoRequests \cup {geoTimer}) <= MaxRequests
    /\ geoRequests' = geoRequests \cup {geoTimer}
    /\ geoTimer' = NoTimer
    /\ geoApplied' = NotApplied
    /\ UNCHANGED <<formVars, chartVars, clampEffect, engineVars>>

\* /api/geocode answers a request with a top hit: the place, the latitude
\* and the longitude are set from it.  A changed place runs the effect
\* again, which sets no timer as both coordinates are now filled.
GeoAnswerApplied ==
    /\ \E q \in geoRequests :
        /\ geoRequests' = geoRequests \ {q}
        /\ geoApplied' = [applied |-> TRUE, q |-> q, place |-> place,
                                                   lat |-> lat, lon |-> lon]
        /\ place' = Top(q).name
        /\ lat' = Top(q).lat
        /\ lon' = Top(q).lon
        /\ geoTimer' = IF Top(q).name # place THEN NoTimer ELSE geoTimer
    /\ UNCHANGED <<formName, year, month, day, timeStr, timezone>>
    /\ UNCHANGED <<chartVars, clampEffect, engineVars>>

\* /api/geocode answers with an error or without a top hit, or the fetch
\* fails: nothing is set.
GeoAnswerDropped ==
    /\ \E q \in geoRequests :
        geoRequests' = geoRequests \ {q}
    /\ geoApplied' = NotApplied
    /\ UNCHANGED <<formVars, chartVars, clampEffect, geoTimer, engineVars>>

NextGeocode ==
    \/ TypePlace
    \/ TypeLat
    \/ TypeLon
    \/ GeoTimerFires
    \/ GeoAnswerApplied
    \/ GeoAnswerDropped
    \/ resetAll

SpecGeocode == Init /\ [][NextGeocode]_vars

(***************************************************************************)
(* generateChart.  chartCall is where the latest invocation is: "idle"     *)
(* (none since the page was blank), "awaiting" the answer of /api/chart,   *)
(* or how it ended: "invalid" (a validation returned), "answeredOk",       *)
(* "answeredError" (res.ok false) or "failed" (the fetch threw).  sent is  *)
(* the set of requests the latest invocation made.                         *)
(***************************************************************************)

NameTexts == {"", " ", "Asha"}

\* timeStr as the four time dropdowns give it: empty until all are set.
TimeTexts == {"", "06:30:00"}

\* The three date dropdowns taken together: blank, without a day, and a
\* date the clamping effect leaves as it is.
DateChoices == {<<Blank, Blank, Blank>>, <<2024, 2, Blank>>, <<2024, 2, 29>>}

\* The zones Intl.DateTimeFormat accepts, among the texts typed.
IntlZones == {<<"Asia", "Kolkata">>}

\* The timezone texts typed: blank, a zone, a zone typed city first, a
\* city of the quick map, and no zone at all.
TimezoneTexts ==
    {NoZone, <<"Asia", "Kolkata">>, <<"Kolkata", "Asia">>, <<"Bombay", "Asia">>,
     <<"Mars", "Phobos">>}

\* The quick map of normalizeTimezone, for the texts above.
quickMap(tz) ==
    IF tz \in {<<"Kolkata", "Asia">>, <<"Calcutta", "Asia">>,
               <<"Bombay", "Asia">>, <<"Madras", "Asia">>}
    THEN <<"Asia", "Kolkata">>
    ELSE NoZone

\* normalizeTimezone: the text if Intl accepts it, else its two parts
\* swapped if Intl accepts that, else what the quick map has; tz is NoZone
\* (null) for a blank or unrecognized text.
normalizeTimezone(tzRaw) ==
    LET swapped == IF Len(tzRaw) >= 2 THEN <<tzRaw[2], tzRaw[1]>> ELSE NoZone
    IN  IF tzRaw = NoZone THEN [tz |-> NoZone, corrected |-> NoZone]
        ELSE IF tzRaw \in IntlZones THEN [tz |-> tzRaw, corrected |-> NoZone]
        ELSE IF swapped \in IntlZones THEN [tz |-> swapped, corrected |-> swapped]
        ELSE [tz |-> quickMap(tzRaw), corrected |-> quickMap(tzRaw)]

TypeName ==
    /\ ~clampEffect
    /\ \E n \in NameTexts :
        /\ n # formName
        /\ formName' = n
    /\ geoApplied' = NotApplied
    /\ UNCHANGED <<place, lat, lon, year, month, day, timeStr, timezone>>
    /\ UNCHANGED <<chartVars, clampEffect, geoTimer, geoRequests, engineVars>>

SelectDate ==
    /\ ~clampEffect
    /\ \E date \in DateChoices :
        /\ date # <<year, month, day>>
        /\ year' = date[1]
        /\ month' = date[2]
        /\ day' = date[3]
    /\ geoApplied' = NotApplied
    /\ UNCHANGED <<formName, place, lat, lon, timeStr, timezone>>
    /\ UNCHANGED <<chartVars, clampEffect, geoTimer, geoRequests, engineVars>>

SelectTime ==
    /\ ~clampEffect
    /\ \E t \in TimeTexts :
        /\ t # timeStr
        /\ timeStr' = t
    /\ geoApplied' = NotApplied
    /\ UNCHANGED <<formName, place, lat, lon, year, month, day, timezone>>
    /\ UNCHANGED <<chartVars, clampEffect, geoTimer, geoRequests, engineVars>>

TypeTimezone ==
    /\ ~clampEffect
    /\ \E tz \in TimezoneTexts :
        /\ tz # timezone
        /\ timezone' = tz
    /\ geoApplied' = NotApplied
    /\ UNCHANGED <<formName, place, lat, lon, year, month, day, timeStr>>
    /\ UNCHANGED <<chartVars, clampEffect, geoTimer, geoRequests, engineVars>>

\* The message of the first validation of generateChart that fails, ""
\* when none does.
validation ==
    IF trim(formName) = "" THEN "Please enter a Name."
    ELSE IF trim(place) = ""
         THEN "Please enter a Place (e.g., Park Ridge, Illinois, USA)."
    ELSE IF lat = "" \/ lon = ""
         THEN "Please provide latitude and longitude (use Geocode, Use my location, or type them)."
    ELSE IF dateStr = <<>> THEN "Please set Day/Month/Year using the dropdowns."
    ELSE IF timeStr = ""
         THEN "Please set Time (HH:MM:SS & AM/PM) using the dropdowns."
    ELSE IF normalizeTimezone(timezone).tz = NoZone
         THEN "Unrecognized timezone. Choose from the list or type a valid IANA zone like \"America/Chicago\", \"Asia/Kolkata\"."
    ELSE ""

\* generateChart up to its first await, on the submit button, which is
\* disabled while loading.  The error and the chart are cleared; a failed
\* validation sets its error and returns through the finally; otherwise a
\* corrected timezone is written back to the field, the log request and
\* the request to /api/chart go out and the page is loading.
generateChart ==
    /\ ~clampEffect
    /\ ~loading
    /\ chartCall # "awaiting"
    /\ chartOut' = JsonNull
    /\ IF validation # ""
       THEN /\ err' = JsonError(validation)
            /\ loading' = FALSE
            /\ chartCall' = "invalid"
            /\ sent' = {}
            /\ timezone' = timezone
       ELSE /\ err' = JsonNull
            /\ loading' = TRUE
            /\ chartCall' = "awaiting"
            /\ sent' = {"log-chart", "/api/chart"}
            /\ timezone' =
                    LET corrected == normalizeTimezone(timezone).corrected
                    IN  IF corrected # NoZone /\ corrected # timezone
                        THEN corrected
                        ELSE timezone
    /\ geoApplied' = NotApplied
    /\ UNCHANGED <<formName, place, lat, lon, year, month, day, timeStr>>
    /\ UNCHANGED <<clampEffect, geoTimer, geoRequests, engineVars>>

\* What can come back from the fetch of /api/chart: a rejection, or a
\* response that is ok or not, whose body is no JSON (or null), an object
\* with an error field, or an object without.
ChartAnswers ==
    [rejected : {TRUE}, ok : {FALSE}, json : {JsonNull}]
        \cup [rejected : {FALSE}, ok : BOOLEAN,
              json : {JsonNull, JsonError("Bad date"), JsonObject}]

\* generateChart after its await.
ChartAnswered ==
    /\ chartCall = "awaiting"
    /\ \E answer \in ChartAnswers :
        IF answer.rejected
        THEN /\ err' = JsonError("Failed to fetch")
             /\ chartOut' = chartOut
             /\ chartCall' = "failed"
        ELSE IF ~answer.ok
        THEN /\ err' = IF ~answer.json.null /\ answer.json.error # ""
                       THEN answer.json
                       ELSE JsonError("Chart error")
             /\ chartOut' = chartOut
             /\ chartCall' = "answeredError"
        ELSE /\ err' = JsonNull
             /\ chartOut' = answer.json
             /\ chartCall' = "answeredOk"
    /\ loading' = FALSE
    /\ geoApplied' = NotApplied
    /\ UNCHANGED <<formVars, sent, clampEffect, geoTimer, geoRequests, engineVars>>

NextChart ==
    \/ TypeName
    \/ TypePlace
    \/ TypeLat
    \/ TypeLon
    \/ SelectDate
    \/ SelectTime
    \/ TypeTimezone
    \/ generateChart
    \/ ChartAnswered
    \/ resetAll

SpecChart == Init /\ [][NextChart]_vars

(* ---------------- properties ---------------- *)

\* The value in [0,360) that differs from x by whole turns.
Reduced(x) == x % Deg(360)

\* C1: for every sign s in 0..11 and within-sign degree w in [0,30),
\* navamsaSign(s, w) is (base + p) mod 12, where p in 0..8 is the part of
\* width 30/9 that holds w and base is s for a movable sign (s mod 3 = 0),
\* s+8 for a fixed one (s mod 3 = 1) and s+4 for a dual one (s mod 3 = 2);
\* for Aries part 0 gives Aries and part 8 gives Sagittarius.
C1_NavamsaRule ==
    fn = "navamsaSign" =>
        LET s == args.s
            w == args.within
            parts == {q \in 0..8 : q * Deg(30) <= 9 * w /\ 9 * w < (q + 1) * Deg(30)}
            base == CASE s % 3 = 0 -> s
                      [] s % 3 = 1 -> (s + 8) % 12
                      [] s % 3 = 2 -> (s + 4) % 12
        IN  /\ Cardinality(parts) = 1
            /\ \A p \in parts :
                /\ ret.value = (base + p) % 12
                /\ (s = 0 /\ p = 0) => ret.value = 0
                /\ (s = 0 /\ p = 8) => ret.value = 8

\* Aries, last navamsa part: Sagittarius.
C1_Witness ==
    /\ fn = "navamsaSign"
    /\ args.s = 0
    /\ 9 * args.within >= 8 * Deg(30)
    /\ ret.value = 8

\* C2: for every longitude L (negative, zero, or beyond one turn),
\* norm360(L) lies in [0,360) and differs from L by a whole number of turns.
C2_Norm360Range ==
    fn = "norm360" =>
        /\ 0 <= ret.value
        /\ ret.value < Deg(360)
        /\ (args.x - ret.value) % Deg(360) = 0

\* A negative longitude brought into the turn.
C2_Witness ==
    /\ fn = "norm360"
    /\ args.x < 0
    /\ ret.value > 0

\* C3: for every longitude L, nakForDeg(L) has index in 0..26, the span of
\* width 360/27 that holds the normalised L; pada in 1..4, the quarter of that
\* span that holds L; name the index-th nakshatra name; and lord the
\* (index mod 9)-th of Ketu, Venus, Sun, Moon, Mars, Rahu, Jupiter, Saturn,
\* Mercury.
C3_NakshatraRule ==
    fn = "nakForDeg" =>
        LET L == Reduced(args.deg)
            lords == <<"Ketu", "Venus", "Sun", "Moon", "Mars", "Rahu",
                       "Jupiter", "Saturn", "Mercury">>
            i == ret.index
            offset == L - i * (Deg(360) \div 27)
        IN  /\ i \in 0..26
            /\ i * Deg(360) <= 27 * L
            /\ 27 * L < (i + 1) * Deg(360)
            /\ ret.pada \in 1..4
            /\ (ret.pada - 1) * Deg(10) <= 3 * offset
            /\ 3 * offset < ret.pada * Deg(10)
            /\ ret.name = NAK_NAMES[i + 1]
            /\ ret.lord = lords[(i % 9) + 1]

\* C4 as stated: longitude 0 resolves to Ashwini, pada 1, lord Ketu, and
\* longitude 13.3333 resolves to index 1, Bharani.
C4_AsStated ==
    fn = "nakForDeg" =>
        /\ args.deg = 0 =>
            (ret.index = 0 /\ ret.name = "Ashwini" /\ ret.pada = 1 /\ ret.lord = "Ketu")
        /\ args.deg = TenThousandths(133333) =>
            (ret.index = 1 /\ ret.name = "Bharani")

\* C4 (amended): longitude 0 resolves to index 0 (Ashwini), pada 1, lord Ketu;
\* longitude 13.3333 is short of one span (360/27 = 13.3333...) and resolves
\* to index 0 (Ashwini), pada 4; longitude 13.3334 is past it and resolves to
\* index 1 (Bharani), pada 1.
C4_NakshatraBoundary ==
    fn = "nakForDeg" =>
        /\ args.deg = 0 =>
            (ret.index = 0 /\ ret.name = "Ashwini" /\ ret.pada = 1 /\ ret.lord = "Ketu")
        /\ args.deg = TenThousandths(133333) =>
            (ret.index = 0 /\ ret.name = "Ashwini" /\ ret.pada = 4)
        /\ args.deg = TenThousandths(133334) =>
            (ret.index = 1 /\ ret.name = "Bharani" /\ ret.pada = 1)

\* The first ten-thousandth of a degree past one span, resolved to Bharani.
C4_Witness ==
    /\ fn = "nakForDeg"
    /\ args.deg = TenThousandths(133334)
    /\ ret.name = "Bharani"

\* The Sun and the Moon of the chart a panchangaFrom call was given, and
\* their separation brought into [0,360).
SunOf(out) == Get(out.positions, "Sun")

MoonOf(out) == Get(out.positions, "Moon")

SeparationOf(out) == Reduced(MoonOf(out).v - SunOf(out).v)

\* panchangaFrom came back with a record.
PanchangaReturned == fn = "panchangaFrom" /\ ret.kind = "value"

\* C5: whenever panchangaFrom yields a record, with diff the Moon-minus-Sun
\* separation in [0,360): tithiNum is in 1..30 and is the 12-degree step that
\* holds diff, counted from 1; paksha is Shukla iff tithiNum <= 15; tithiName
\* is the ((tithiNum-1) mod 15)-th of the 15 names, except that tithi 30 is
\* Amavasya.  So diff 0 gives (1, Shukla, Pratipada), 179.999 gives
\* (15, Shukla, Purnima), 180 gives (16, Krishna, Pratipada), 354 Amavasya.
C5_TithiRule ==
    PanchangaReturned =>
        LET diff == SeparationOf(args.out)
            r == ret.value
            n == r.tithiNum
            names == <<"Pratipada", "Dvitiya", "Tritiya", "Chaturthi", "Panchami",
                       "Shashthi", "Saptami", "Ashtami", "Navami", "Dashami",
                       "Ekadashi", "Dwadashi", "Trayodashi", "Chaturdashi",
                       "Purnima">>
        IN  /\ n \in 1..30
            /\ (n - 1) * Deg(12) <= diff
            /\ diff < n * Deg(12)
            /\ r.paksha = (IF n <= 15 THEN "Shukla" ELSE "Krishna")
            /\ r.tithiName = (IF n = 30 THEN "Amavasya" ELSE names[((n - 1) % 15) + 1])
            /\ diff = 0 =>
                (n = 1 /\ r.paksha = "Shukla" /\ r.tithiName = "Pratipada")
            /\ diff = TenThousandths(1799990) =>
                (n = 15 /\ r.paksha = "Shukla" /\ r.tithiName = "Purnima")
            /\ diff = Deg(180) =>
                (n = 16 /\ r.paksha = "Krishna" /\ r.tithiName = "Pratipada")
            /\ diff = Deg(354) => r.tithiName = "Amavasya"

\* A separation of 354 degrees named Amavasya.
C5_Witness ==
    /\ PanchangaReturned
    /\ SeparationOf(args.out) = Deg(354)
    /\ ret.value.tithiNum = 30
    /\ ret.value.tithiName = "Amavasya"

\* C6: whenever panchangaFrom yields a record, the karana index, the 6-degree
\* step that holds diff, is in 0..59 and the karana name is defined: index 0
\* is Kimstughna, 57, 58, 59 are Shakuni, Chatushpada, Naga, and an index i
\* in 1..56 has the ((i-1) mod 7)-th of Bava, Balava, Kaulava, Taitila,
\* Garaja, Vanija, Vishti.
C6_KaranaRule ==
    PanchangaReturned =>
        LET diff == SeparationOf(args.out)
            steps == {k \in 0..59 : k * Deg(6) <= diff /\ diff < (k + 1) * Deg(6)}
            rot == <<"Bava", "Balava", "Kaulava", "Taitila", "Garaja", "Vanija",
                     "Vishti">>
        IN  /\ Cardinality(steps) = 1
            /\ ret.value.karana # "undefined"
            /\ \A i \in steps :
                ret.value.karana =
                    CASE i = 0 -> "Kimstughna"
                      [] i = 57 -> "Shakuni"
                      [] i = 58 -> "Chatushpada"
                      [] i = 59 -> "Naga"
                      [] OTHER -> rot[((i - 1) % 7) + 1]

\* A separation in the 58th step, named by the ending table's second entry.
C6_Witness ==
    /\ PanchangaReturned
    /\ SeparationOf(args.out) >= 58 * Deg(6)
    /\ SeparationOf(args.out) < 59 * Deg(6)
    /\ ret.value.karana = "Chatushpada"

\* The aspect definitions as the claim lists them: name, angle and orb in
\* whole degrees, in the order they are tried.
ClaimedAspects == <<<<"Conjunction", 0, 6>>, <<"Opposition", 180, 6>>,
                    <<"Trine", 120, 5>>, <<"Square", 90, 5>>,
                    <<"Sextile", 60, 4>>>>

\* The shorter arc between two finite longitudes.
Distance(a, b) ==
    LET x == Reduced(a - b)
    IN  IF x <= Deg(180) THEN x ELSE Deg(360) - x

\* The definitions whose orb holds the distance d.
Matching(d) ==
    {j \in 1..Len(ClaimedAspects) :
        Abs(d - Deg(ClaimedAspects[j][2])) <= Deg(ClaimedAspects[j][3])}

\* delta as the claim reads it: the deviation raw itself when exact, else
\* raw rounded to a hundredth of a degree.
DeltaOk(exact, delta, raw) ==
    IF exact THEN delta = raw
    ELSE /\ delta % (Scale \div 100) = 0
         /\ 2 * Abs(delta - raw) <= Scale \div 100

\* What the claim says of a deriveAscAspects call, for a given reading of
\* "delta": every body with a finite longitude gets at most one record; with
\* a finite ascendant it gets one exactly when some definition's orb holds the
\* distance d, and that record is (Ascendant, body, first such definition)
\* with an acceptable delta of at most the orb.
AspectsAsClaimed(exact) ==
    LET out == args.out
        ps == out.positions
    IN  \A i \in 1..Len(ps) :
            IsFinite(ps[i].deg) =>
                LET recs == {k \in 1..Len(ret.pairs) : ret.pairs[k].b = ps[i].name}
                IN  /\ Cardinality(recs) <= 1
                    /\ IsFinite(out.ascendant) =>
                        LET d == Distance(out.ascendant.v, ps[i].deg.v)
                            first == CHOOSE j \in Matching(d) :
                                        \A k \in Matching(d) : j <= k
                        IN  /\ Matching(d) = {} => recs = {}
                            /\ Matching(d) # {} =>
                                \E k \in recs :
                                    /\ ret.pairs[k].a = "Ascendant"
                                    /\ ret.pairs[k].type = ClaimedAspects[first][1]
                                    /\ DeltaOk(exact, ret.pairs[k].delta,
                                              d - Deg(ClaimedAspects[first][2]))
                                    /\ Abs(ret.pairs[k].delta) <= Deg(ClaimedAspects[first][3])

\* The claim's example: ascendant at 100 and one body at 280 give exactly
\* one record, an Opposition with delta 0.
AspectExample ==
    (args.out.ascendant = Num(Deg(100))
        /\ args.out.positions = <<Entry("Sun", Num(Deg(280)))>>)
    => ret.pairs = <<AspectPair("Ascendant", "Sun", "Opposition", 0)>>

\* C7 as stated: the definitions are tried in the order Conjunction,
\* Opposition, Trine, Square, Sextile, a body gets at most one record, for
\* the first definition whose orb holds d, and its delta is d - angle.
C7_AsStated ==
    fn = "deriveAscAspects" => (AspectsAsClaimed(TRUE) /\ AspectExample)

\* C7 (amended): as stated, except that the recorded delta is d - angle
\* rounded to two decimal places (signed, and still at most the orb in size).
C7_FirstMatchRounded ==
    fn = "deriveAscAspects" => (AspectsAsClaimed(FALSE) /\ AspectExample)

\* A body 0.004 degrees past the exact opposition: one Opposition record,
\* whose delta is rounded to 0.
C7_Witness ==
    /\ fn = "deriveAscAspects"
    /\ args.out.ascendant = Num(Deg(100))
    /\ args.out.positions[1].deg = Num(Deg(280) + 4 * (Scale \div 1000))
    /\ Len(ret.pairs) >= 1
    /\ ret.pairs[1].type = "Opposition"
    /\ ret.pairs[1].delta = 0

\* Two records name the same pair of bodies with the same aspect type.
SameUnorderedKey(p, q) ==
    /\ p.type = q.type
    /\ {p.a, p.b} = {q.a, q.b}

\* C8: mergeAspects(existing, ascOnes) deduplicates by the unordered key
\* (bodyA, aspectType, bodyB): no two output records name the same pair of
\* bodies with the same type, in either order, and the record kept for a key
\* is the last one inserted with it (ascOnes after existing).
C8_UnorderedDedup ==
    fn = "mergeAspects" =>
        LET all == args.existing \o args.ascOnes
        IN  /\ \A i, j \in 1..Len(ret.pairs) :
                i < j => ~SameUnorderedKey(ret.pairs[i], ret.pairs[j])
            /\ \A k \in 1..Len(all) :
                \E i \in 1..Len(ret.pairs) : SameUnorderedKey(ret.pairs[i], all[k])
            /\ \A i \in 1..Len(ret.pairs) :
                \E k \in 1..Len(all) :
                    /\ ret.pairs[i] = all[k]
                    /\ \A l \in (k + 1)..Len(all) : ~SameUnorderedKey(all[l], all[k])

\* C9: when the chart's timezone identifier cannot be resolved, panchangaFrom
\* reports the panchanga as unavailable (null) and nothing is thrown.
C9_TimezoneUnavailable ==
    (fn = "panchangaFrom" /\ ~args.out.null
        /\ args.out.timezone \notin DOMAIN TZ_OFFSET)
    => ret.kind = "null"

\* C10: panchangaFrom returns null whenever the chart is null or the Sun or
\* the Moon longitude is absent or not finite; otherwise it returns a record
\* whose vara, tithiNum, tithiName, paksha, nakshatra, pada, yoga and karana
\* are all defined.
C10_NullOrComplete ==
    fn = "panchangaFrom" =>
        IF args.out.null
        THEN ret.kind = "null"
        ELSE IF ~IsFinite(SunOf(args.out)) \/ ~IsFinite(MoonOf(args.out))
        THEN ret.kind = "null"
        ELSE /\ ret.kind = "value"
             /\ ret.value.vara \in {WEEKDAYS[i] : i \in 1..7}
             /\ ret.value.tithiNum \in 1..30
             /\ ret.value.tithiName # "undefined"
             /\ ret.value.paksha \in {"Shukla", "Krishna"}
             /\ ret.value.nakshatra # "undefined"
             /\ ret.value.pada \in Int
             /\ ret.value.yoga # "undefined"
             /\ ret.value.karana # "undefined"

\* The longitude vargaPlacements reads for a body: the ascendant argument for
\* the Ascendant, the positions entry for any other.
LongitudeOf(b) ==
    IF b = "Ascendant" THEN args.asc ELSE Get(args.positions, b)

\* The row a body gets when every other body is absent from the chart.
RowAlone(b) ==
    IF b = "Ascendant" THEN vargaPlacements(<<>>, args.asc)[1]
    ELSE vargaPlacements(<<Entry(b, LongitudeOf(b))>>, Undefined)[1]

\* C11: vargaPlacements returns exactly one row for each of the 13 bodies
\* (Ascendant, Sun, Moon, Mercury, Venus, Mars, Jupiter, Saturn, Rahu, Ketu,
\* Uranus, Neptune, Pluto) whose longitude is finite, in that order, and no
\* row for a body whose longitude is absent or not finite; the row of a body
\* is the one it has when the other bodies are absent, and the call always
\* returns.
C11_RowPerFiniteBody ==
    fn = "vargaPlacements" =>
        LET bodies == <<"Ascendant", "Sun", "Moon", "Mercury", "Venus", "Mars",
                        "Jupiter", "Saturn", "Rahu", "Ketu", "Uranus",
                        "Neptune", "Pluto">>
            finite == {i \in 1..13 : IsFinite(LongitudeOf(bodies[i]))}
            nth(k) == CHOOSE i \in finite :
                         Cardinality({j \in finite : j < i}) = k - 1
        IN  /\ DOMAIN ret = {"rows"}
            /\ Len(ret.rows) = Cardinality(finite)
            /\ \A k \in 1..Len(ret.rows) :
                /\ ret.rows[k].body = bodies[nth(k)]
                /\ ret.rows[k] = RowAlone(bodies[nth(k)])

\* A full chart whose Moon is NaN and whose ascendant is absent: the rows
\* start at the Sun and go on with Mercury.
C11_Witness ==
    /\ fn = "vargaPlacements"
    /\ Get(args.positions, "Moon") = NaN
    /\ args.asc = Undefined
    /\ Len(args.positions) = 12
    /\ Len(ret.rows) = 11
    /\ ret.rows[1].body = "Sun"
    /\ ret.rows[2].body = "Mercury"

\* A number the input contract excludes: NaN, Infinity, or a finite value
\* outside [0,360).
InvalidNumber(x) ==
    \/ x \in {NaN, Infinity}
    \/ IsFinite(x) /\ (x.v < 0 \/ x.v >= Deg(360))

\* The call signalled an error to its caller instead of returning a result.
Rejected == "error" \in DOMAIN ret

\* C12: a NaN, infinite or out-of-range longitude or ascendant is rejected
\* outright, the caller being signalled, rather than coerced or skipped: a
\* vargaPlacements or deriveAscAspects call given one builds no row and no
\* aspect record but signals an error.
C12_InvalidRejected ==
    /\ fn = "vargaPlacements" =>
        ((\E i \in 1..Len(BODIES) : InvalidNumber(LongitudeOf(BODIES[i])))
            => Rejected)
    /\ fn = "deriveAscAspects" =>
        ((\/ InvalidNumber(args.out.ascendant)
          \/ \E i \in 1..Len(args.out.positions) :
                InvalidNumber(args.out.positions[i].deg))
            => Rejected)

\* The signs the claims call odd: those whose zero-based index is even.
OddSigns == {0, 2, 4, 6, 8, 10}

\* The zero-based index of a sign name.
SignNamed(name) == CHOOSE i \in 0..11 : SIGNS[i + 1] = name

\* C14: for every sign s in 0..11 and within-sign degree w in [0,30),
\* horaSign(s, w) is a fixed lookup: for an odd sign (zero-based index even,
\* Aries included) Leo (4) when w < 15 and Cancer (3) when w >= 15; for an
\* even sign Cancer (3) when w < 15 and Leo (4) when w >= 15.
C14_HoraRule ==
    fn = "horaSign" =>
        LET s == args.s
            w == args.within
        IN  /\ (s \in OddSigns /\ w < Deg(15)) => ret.value = 4
            /\ (s \in OddSigns /\ w >= Deg(15)) => ret.value = 3
            /\ (s \notin OddSigns /\ w < Deg(15)) => ret.value = 3
            /\ (s \notin OddSigns /\ w >= Deg(15)) => ret.value = 4
            /\ SIGNS[4 + 1] = "Leo"
            /\ SIGNS[3 + 1] = "Cancer"

\* Taurus, an even sign, second half: Leo.
C14_Witness ==
    /\ fn = "horaSign"
    /\ args.s = 1
    /\ args.within >= Deg(15)
    /\ ret.value = 4

\* C15: for every sign s in 0..11 and within-sign degree w in [0,30),
\* trimshamsaSign(s, w) takes the band of w under the thresholds 5, 10, 18,
\* 25, 30 (bands of 5, 5, 8, 7, 5 degrees) and returns that band's entry of
\* Aries, Aquarius, Sagittarius, Gemini, Libra for an odd sign and of
\* Scorpio, Capricorn, Pisces, Virgo, Taurus for an even sign.
C15_TrimshamsaRule ==
    fn = "trimshamsaSign" =>
        LET s == args.s
            w == args.within
            upper == <<5, 10, 18, 25, 30>>
            widths == <<5, 5, 8, 7, 5>>
            bands == {k \in 1..5 :
                        Deg(upper[k] - widths[k]) <= w /\ w < Deg(upper[k])}
            forOdd == <<"Aries", "Aquarius", "Sagittarius", "Gemini", "Libra">>
            forEven == <<"Scorpio", "Capricorn", "Pisces", "Virgo", "Taurus">>
        IN  /\ Cardinality(bands) = 1
            /\ \A k \in bands :
                ret.value = SignNamed(IF s \in OddSigns THEN forOdd[k] ELSE forEven[k])

\* An even sign between 10 and 18 degrees: Pisces.
C15_Witness ==
    /\ fn = "trimshamsaSign"
    /\ args.s = 5
    /\ args.within >= Deg(17)
    /\ args.within < Deg(18)
    /\ ret.value = 11

\* C16: for every sign s in 0..11 and within-sign degree w in [0,30),
\* saptamsaSign(s, w) is (base + p) mod 12, where p in 0..6 is the part of
\* width 30/7 that holds w and base is s for an odd sign (zero-based index
\* even) and (s + 6) mod 12 otherwise.
C16_SaptamsaRule ==
    fn = "saptamsaSign" =>
        LET s == args.s
            w == args.within
            parts == {q \in 0..6 : q * Deg(30) <= 7 * w /\ 7 * w < (q + 1) * Deg(30)}
            base == IF s \in OddSigns THEN s ELSE (s + 6) % 12
        IN  /\ Cardinality(parts) = 1
            /\ \A p \in parts : ret.value = (base + p) % 12

\* Taurus, last saptamsa part: counted from Scorpio, it is Taurus again.
C16_Witness ==
    /\ fn = "saptamsaSign"
    /\ args.s = 1
    /\ 7 * args.within >= 6 * Deg(30)
    /\ ret.value = 1

\* C17: for every sign s in 0..11 and within-sign degree w in [0,30),
\* dasamsaSign(s, w) is (base + p) mod 12, where p in 0..9 is the part of
\* width 3 that holds w and base is s for an odd sign (zero-based index even)
\* and (s + 8) mod 12 otherwise.
C17_DasamsaRule ==
    fn = "dasamsaSign" =>
        LET s == args.s
            w == args.within
            parts == {q \in 0..9 : Deg(3 * q) <= w /\ w < Deg(3 * (q + 1))}
            base == IF s \in OddSigns THEN s ELSE (s + 8) % 12
        IN  /\ Cardinality(parts) = 1
            /\ \A p \in parts : ret.value = (base + p) % 12

\* Taurus, last dasamsa part: counted from Capricorn, it is Libra.
C17_Witness ==
    /\ fn = "dasamsaSign"
    /\ args.s = 1
    /\ args.within >= Deg(27)
    /\ ret.value = 6

\* C18: for every sign s in 0..11 and within-sign degree w in [0,30),
\* drekkanaSign(s, w) is (s + offset) mod 12, where the offset is 0, 4 or 8
\* for the part p = 0, 1 or 2 of width 10 that holds w.
C18_DrekkanaRule ==
    fn = "drekkanaSign" =>
        LET s == args.s
            w == args.within
            parts == {q \in 0..2 : Deg(10 * q) <= w /\ w < Deg(10 * (q + 1))}
            offset == <<0, 4, 8>>
        IN  /\ Cardinality(parts) = 1
            /\ \A p \in parts : ret.value = (s + offset[p + 1]) % 12

\* Aquarius, third drekkana: Libra.
C18_Witness ==
    /\ fn = "drekkanaSign"
    /\ args.s = 10
    /\ args.within >= Deg(20)
    /\ ret.value = 6

\* C19: for every sign s in 0..11 and within-sign degree w in [0,30),
\* dwadasamsaSign(s, w) is (s + p) mod 12, where p in 0..11 is the part of
\* width 2.5 that holds w.
C19_DwadasamsaRule ==
    fn = "dwadasamsaSign" =>
        LET s == args.s
            w == args.within
            parts == {q \in 0..11 : Deg(5 * q) <= 2 * w /\ 2 * w < Deg(5 * (q + 1))}
        IN  /\ Cardinality(parts) = 1
            /\ \A p \in parts : ret.value = (s + p) % 12

\* Pisces, last dwadasamsa part: Aquarius.
C19_Witness ==
    /\ fn = "dwadasamsaSign"
    /\ args.s = 11
    /\ 2 * args.within >= Deg(55)
    /\ ret.value = 10

\* C20: D1 is the identity varga: for every body with a finite longitude L,
\* the D1 cell of its vargaPlacements row is the name of the sign
\* floor(norm360(L) / 30), whatever the degree within the sign.
C20_D1Identity ==
    fn = "vargaPlacements" =>
        \A k \in 1..Len(ret.rows) :
            LET L == Reduced(LongitudeOf(ret.rows[k].body).v)
                signs == {i \in 0..11 : Deg(30 * i) <= L /\ L < Deg(30 * (i + 1))}
            IN  /\ IsFinite(LongitudeOf(ret.rows[k].body))
                /\ Cardinality(signs) = 1
                /\ \A i \in signs : ret.rows[k].D1 = SIGNS[i + 1]

\* A Sun at a negative longitude in the last degree of the turn: Pisces.
C20_Witness ==
    /\ fn = "vargaPlacements"
    /\ Len(args.positions) = 1
    /\ args.positions[1].deg.v < 0
    /\ args.positions[1].deg.v > -Deg(1)
    /\ ret.rows[2].body = "Sun"
    /\ ret.rows[2].D1 = "Pisces"

\* What deciding an input on the k-th edge of a partition amounts to: the
\* result is that of the band below the edge (band k - 1), or that of the band
\* that begins at it (band k).
EdgeCase(partition, isBelow, isAt) ==
    [of |-> partition, below |-> isBelow, at |-> isAt]

\* x is on an edge k * width of a partition of [0, top), for some k >= 1.
OnEdge(x, width, top) == x > 0 /\ x < top /\ x % width = 0

\* The karana name of the index i, as the karana rule gives it.
KaranaNamed(i) ==
    CASE i = 0 -> "Kimstughna"
      [] i = 57 -> "Shakuni"
      [] i = 58 -> "Chatushpada"
      [] i = 59 -> "Naga"
      [] OTHER -> KARANA_ROT[((i - 1) % 7) + 1]

\* The base sign of the dasamsa count.
DasamsaBase(s) == IF s \in OddSigns THEN s ELSE (s + 8) % 12

\* The trimshamsa sign of band b (0..4) of sign s.
TrimshamsaOfBand(s, b) ==
    IF s \in OddSigns THEN <<0, 10, 8, 2, 6>>[b + 1] ELSE <<7, 9, 11, 5, 1>>[b + 1]

\* The edge cases of the call in progress, for the partitions whose edges are
\* whole or half degrees: the D2 halves, the D3, D10 and D12 parts, the D30
\* thresholds, the tithi steps and the karana steps.
ExactEdgeCases ==
    CASE fn = "horaSign" /\ args.within = Deg(15) ->
            {EdgeCase("D2", ret.value = (IF args.s \in OddSigns THEN 4 ELSE 3),
                      ret.value = (IF args.s \in OddSigns THEN 3 ELSE 4))}
      [] fn = "drekkanaSign" /\ OnEdge(args.within, Deg(10), Deg(30)) ->
            LET k == args.within \div Deg(10)
            IN  {EdgeCase("D3", ret.value = (args.s + 4 * (k - 1)) % 12,
                          ret.value = (args.s + 4 * k) % 12)}
      [] fn = "dasamsaSign" /\ OnEdge(args.within, Deg(3), Deg(30)) ->
            LET k == args.within \div Deg(3)
            IN  {EdgeCase("D10", ret.value = (DasamsaBase(args.s) + k - 1) % 12,
                          ret.value = (DasamsaBase(args.s) + k) % 12)}
      [] fn = "dwadasamsaSign" /\ OnEdge(2 * args.within, Deg(5), Deg(60)) ->
            LET k == (2 * args.within) \div Deg(5)
            IN  {EdgeCase("D12", ret.value = (args.s + k - 1) % 12,
                          ret.value = (args.s + k) % 12)}
      [] fn = "trimshamsaSign" /\ args.within \in {Deg(5), Deg(10), Deg(18), Deg(25)} ->
            LET k == CHOOSE j \in 1..4 : Deg(<<5, 10, 18, 25>>[j]) = args.within
            IN  {EdgeCase("D30", ret.value = TrimshamsaOfBand(args.s, k - 1),
                          ret.value = TrimshamsaOfBand(args.s, k))}
      [] PanchangaReturned ->
            LET diff == SeparationOf(args.out)
            IN  (IF OnEdge(diff, Deg(12), Deg(360))
                 THEN {EdgeCase("tithi", ret.value.tithiNum = diff \div Deg(12),
                                ret.value.tithiNum = diff \div Deg(12) + 1)}
                 ELSE {})
                \cup
                (IF OnEdge(diff, Deg(6), Deg(360))
                 THEN {EdgeCase("karana", ret.value.karana = KaranaNamed(diff \div Deg(6) - 1),
                                ret.value.karana = KaranaNamed(diff \div Deg(6)))}
                 ELSE {})
      [] OTHER -> {}

\* The base sign of the navamsa count.
NavamsaBase(s) ==
    CASE s % 3 = 0 -> s
      [] s % 3 = 1 -> (s + 8) % 12
      [] s % 3 = 2 -> (s + 4) % 12

\* The edge cases of the call in progress, for the partitions whose width is
\* a multiple of a third of a degree: the D9 parts, the nakshatra and pada
\* spans and the yoga spans.
ThirdEdgeCases ==
    CASE fn = "navamsaSign" /\ OnEdge(3 * args.within, Deg(10), Deg(90)) ->
            LET k == (3 * args.within) \div Deg(10)
            IN  {EdgeCase("D9", ret.value = (NavamsaBase(args.s) + k - 1) % 12,
                          ret.value = (NavamsaBase(args.s) + k) % 12)}
      [] fn = "nakForDeg" /\ OnEdge(3 * Reduced(args.deg), Deg(10), Deg(1080)) ->
            LET k == (3 * Reduced(args.deg)) \div Deg(10)
            IN  {EdgeCase("pada", 4 * ret.index + ret.pada - 1 = k - 1,
                          4 * ret.index + ret.pada - 1 = k)}
      [] PanchangaReturned ->
            LET angle == Reduced(MoonOf(args.out).v + SunOf(args.out).v)
            IN  IF OnEdge(3 * angle, Deg(40), Deg(1080))
                THEN {EdgeCase("yoga", ret.value.yoga = YOGAS_27[(3 * angle) \div Deg(40)],
                               ret.value.yoga = YOGAS_27[(3 * angle) \div Deg(40) + 1])}
                ELSE {}
      [] OTHER -> {}

\* The calls of the engine that return whatever the angle: everything but a
\* panchangaFrom call whose timezone or instant cannot be rendered.
Renderable ==
    fn = "panchangaFrom" =>
        (args.out.null
            \/ (IsFinite(args.out.jd_ut) /\ args.out.timezone \in DOMAIN TZ_OFFSET))

\* C13: for every partition of the engine (D2 halves, D3, D9, D10 and D12
\* parts, D30 thresholds, nakshatra and pada spans, tithi steps, yoga spans,
\* karana steps) an input exactly equal to a partition edge resolves to the
\* lower band, the one that ends at the edge, and never raises.  (The edges
\* of the D7 parts, k * 30/7, are not whole units and are not among the
\* inputs.)
C13_EdgeLowerBand ==
    /\ \A e \in ExactEdgeCases \cup ThirdEdgeCases : e.below
    /\ Renderable => ~Rejected

\* The varga mappers.
Mappers == {"horaSign", "drekkanaSign", "saptamsaSign", "navamsaSign",
            "dasamsaSign", "dwadasamsaSign", "trimshamsaSign"}

\* The twelve sign names.
SignNames == {"Aries", "Taurus", "Gemini", "Cancer", "Leo", "Virgo", "Libra",
              "Scorpio", "Sagittarius", "Capricorn", "Aquarius", "Pisces"}

\* C21: every row of vargaPlacements has its eight cells D1, D2, D3, D7, D9,
\* D10, D12, D30 set to one of the 12 sign names, and every mapper result is
\* an integer in 0..11: no cell is ever undefined.
C21_CellsAreSigns ==
    /\ fn = "vargaPlacements" =>
        \A k \in 1..Len(ret.rows) :
            \A c \in {"D1", "D2", "D3", "D7", "D9", "D10", "D12", "D30"} :
                /\ c \in DOMAIN ret.rows[k]
                /\ ret.rows[k][c] \in SignNames
    /\ fn \in Mappers => ret.value \in 0..11

\* A Sun at 355 degrees, in the third drekkana of Pisces: the count runs
\* past the twelfth sign and comes back to Scorpio.
C21_Witness ==
    /\ fn = "vargaPlacements"
    /\ args.positions = <<Entry("Sun", Num(Deg(355)))>>
    /\ ret.rows[2].D1 = "Pisces"
    /\ ret.rows[2].D3 = "Scorpio"

\* The Moon-plus-Sun angle of the chart a panchangaFrom call was given,
\* brought into [0,360).
YogaAngleOf(out) == Reduced(MoonOf(out).v + SunOf(out).v)

\* C22: for all finite Sun and Moon longitudes, the yoga index
\* floor(norm360(moon + sun) / (360/27)) is in 0..26 and the yoga name is
\* the entry of the 27-name table at that index, never undefined.  norm360
\* is the code's: for a sum that is a whole number of spans but not of
\* degrees its double can be just below that number, and the index is then
\* the span below.
C22_YogaRule ==
    PanchangaReturned =>
        LET angle == YogaAngleOf(args.out)
            names == <<"Vishkumbha", "Preeti", "Ayushman", "Saubhagya",
                       "Shobhana", "Atiganda", "Sukarma", "Dhriti", "Shoola",
                       "Ganda", "Vriddhi", "Dhruva", "Vyaghata", "Harshana",
                       "Vajra", "Siddhi", "Vyatipata", "Variyan", "Parigha",
                       "Shiva", "Siddha", "Sadhya", "Shubha", "Shukla",
                       "Brahma", "Indra", "Vaidhriti">>
            found == {i \in 0..26 : names[i + 1] = ret.value.yoga}
        IN  /\ ret.value.yoga # "undefined"
            /\ Cardinality(found) = 1
            /\ \A i \in found :
                \/ /\ i * Deg(360) <= 27 * angle
                   /\ 27 * angle < (i + 1) * Deg(360)
                \/ /\ 27 * angle = (i + 1) * Deg(360)
                   /\ angle % Scale # 0

\* A Moon and a Sun whose sum is in the last span: Vaidhriti.
C22_Witness ==
    /\ PanchangaReturned
    /\ 27 * YogaAngleOf(args.out) >= 26 * Deg(360)
    /\ SunOf(args.out) # Num(0)
    /\ ret.value.yoga = "Vaidhriti"

\* C23: for all longitudes a and b, angDiff(a, b) is min(d, 360 - d) with
\* d = |norm360(a) - norm360(b)|, lies in [0,180], is the same for (b, a),
\* and is unchanged when either argument is shifted by whole turns.
C23_AngDiffRule ==
    fn = "angDiff" =>
        LET a == args.a.v
            b == args.b.v
            d == Abs(Reduced(a) - Reduced(b))
            shorter == IF d <= Deg(360) - d THEN d ELSE Deg(360) - d
        IN  /\ ret.number = Num(shorter)
            /\ 0 <= ret.number.v
            /\ ret.number.v <= Deg(180)
            /\ ret.number = angDiff(args.b, args.a)
            /\ \A j, k \in {-2, -1, 0, 1, 2} :
                ret.number = angDiff(Num(a + j * Deg(360)), Num(b + k * Deg(360)))

\* -135 degrees against 725: 225 against 5, a raw difference of 220 and a
\* distance of 140.
C23_Witness ==
    /\ fn = "angDiff"
    /\ args.a.v = -Deg(135)
    /\ args.b.v = Deg(725)
    /\ ret.number.v = Deg(140)

\* C25: navamsa signs are continuous around the zodiac: for every sign s in
\* 0..11 and navamsa part p in 0..8, navamsaSign yields (9 * s + p) mod 12,
\* so the part that follows, 3 degrees 20 minutes further on, has the next
\* sign in order, also across a sign boundary: part 0 of sign s + 1 mod 12 is
\* one sign after part 8 of sign s, never equal to it.
C25_NavamsaContinuity ==
    fn = "navamsaSign" =>
        LET s == args.s
            w == args.within
            parts == {q \in 0..8 : q * Deg(30) <= 9 * w /\ 9 * w < (q + 1) * Deg(30)}
            further == w + Deg(10) \div 3
            following == IF further < Deg(30)
                         THEN navamsaSign(s, further)
                         ELSE navamsaSign((s + 1) % 12, further - Deg(30))
        IN  /\ \A p \in parts : ret.value = (9 * s + p) % 12
            /\ following = (ret.value + 1) % 12
            /\ following # ret.value

\* The last part of Pisces is Pisces; the part that follows, the first of
\* Aries, is Aries.
C25_Witness ==
    /\ fn = "navamsaSign"
    /\ args.s = 11
    /\ 9 * args.within >= 8 * Deg(30)
    /\ ret.value = 11
    /\ navamsaSign(0, args.within + Deg(10) \div 3 - Deg(30)) = 0

\* The definitions of ASPECTS_DEF whose orb band holds the distance d.
InOrb(d) ==
    {j \in 1..Len(ASPECTS_DEF) :
        Abs(d - ASPECTS_DEF[j].angle) <= ASPECTS_DEF[j].orb}

\* C26: the orb bands of the five aspect definitions are pairwise disjoint
\* over the distances [0,180]: every distance deriveAscAspects meets is in
\* the band of at most one definition, so the record of a body is that of the
\* one definition that holds its distance, whatever the order in which the
\* definitions are listed.
C26_OrbsDisjoint ==
    fn = "deriveAscAspects" =>
        LET out == args.out
            ps == out.positions
        IN  \A i \in 1..Len(ps) :
                (IsFinite(ps[i].deg) /\ IsFinite(out.ascendant)) =>
                    LET d == Distance(out.ascendant.v, ps[i].deg.v)
                    IN  /\ d \in 0..Deg(180)
                        /\ Cardinality(InOrb(d)) <= 1
                        /\ \A j \in InOrb(d) :
                            \E k \in 1..Len(ret.pairs) :
                                /\ ret.pairs[k].b = ps[i].name
                                /\ ret.pairs[k].type = ASPECTS_DEF[j].name

\* A body 64 degrees from the ascendant, on the outer edge of the Sextile
\* band: a Sextile with delta 4.
C26_Witness ==
    /\ fn = "deriveAscAspects"
    /\ args.out.ascendant = Num(Deg(100))
    /\ args.out.positions[1].deg = Num(Deg(164))
    /\ Len(ret.pairs) >= 1
    /\ ret.pairs[1].type = "Sextile"
    /\ ret.pairs[1].delta = Deg(4)

\* The arc-seconds a printed sign-and-degree text stands for.
PrintedArcSeconds(t) ==
    LET sign == CHOOSE i \in 0..11 : SIGNS[i + 1] = t.sign
    IN  sign * 30 * 3600 + t.dd * 3600
            + (10 * t.mm[1] + t.mm[2]) * 60 + (10 * t.ss[1] + t.ss[2])

\* C27: fmtSignDeg prints a sign and a degree in 0..29, a minute in 0..59 and
\* a second in 0..59 that together are the normalized longitude rounded to
\* the nearest arc-second, modulo the full turn; a longitude within half an
\* arc-second below a sign boundary is not printed as 30 degrees of the
\* lower sign.
C27_SignDegRounded ==
    fn = "fmtSignDeg" =>
        LET t == ret.text
            turn == 360 * 3600
        IN  /\ t.sign \in SignNames
            /\ t.dd \in 0..29
            /\ 10 * t.mm[1] + t.mm[2] \in 0..59
            /\ 10 * t.ss[1] + t.ss[2] \in 0..59
            /\ PrintedArcSeconds(t) % turn
                   = FloorDiv(norm360(args.x) + ArcSecond \div 2, ArcSecond) % turn

\* The days of a month of the Gregorian calendar.
CalendarDays(y, m) ==
    IF m = 2
    THEN IF y % 400 = 0 \/ (y % 4 = 0 /\ y % 100 # 0) THEN 29 ELSE 28
    ELSE IF m \in {4, 6, 9, 11} THEN 30 ELSE 31

\* C30: after any sequence of day, month and year selections, once the
\* clamping effect has run, the day is at most the number of days of the
\* month (leap years included): the date string is empty or a real calendar
\* date.
C30_DayInMonth ==
    ~clampEffect =>
        /\ (year # Blank /\ month # Blank /\ day # Blank) =>
                day \in 1..CalendarDays(year, month)
        /\ dateStr # <<>> =>
                LET m == 10 * dateStr[2][1] + dateStr[2][2]
                    d == 10 * dateStr[3][1] + dateStr[3][2]
                IN  /\ m \in 1..12
                    /\ d \in 1..CalendarDays(dateStr[1], m)

\* The 29th of February of a leap year, and the effect has run.
C30_Witness ==
    /\ ~clampEffect
    /\ year = 2024
    /\ month = 2
    /\ day = 29
    /\ dateStr = <<2024, <<0, 2>>, <<2, 9>>>>

\* C29: under every interleaving of typing, the 600 ms timer and the answer
\* of /api/geocode, an answer is applied only while a coordinate is still
\* blank, so a latitude and longitude the user has filled are never
\* overwritten, and only while the place text is still the one the request
\* was made for.
C29_FillsOnlyBlank ==
    geoApplied.applied =>
        /\ geoApplied.lat = "" \/ geoApplied.lon = ""
        /\ geoApplied.place = geoApplied.q

\* A generateChart invocation has completed, and nothing was reset since.
ChartCompleted == chartCall \notin {"idle", "awaiting"}

\* C28: after a generateChart invocation completes, loading is false and
\* exactly one of err and out is non-null; out is non-null only when
\* /api/chart answered OK, every other path leaves out null with err set,
\* and no request is sent when a validation fails.
C28_OneOutcome ==
    ChartCompleted =>
        /\ ~loading
        /\ (err = JsonNull) # (chartOut = JsonNull)
        /\ chartOut # JsonNull => chartCall = "answeredOk"
        /\ chartCall # "answeredOk" => (chartOut = JsonNull /\ err # JsonNull)
        /\ chartCall = "invalid" => sent = {}

====
